---------------------------- MODULE Spec2Model ----------------------------
(***************************************************************************)
(* FolderVault: the per-file encrypt/decrypt pipeline of main.js           *)
(* (encryptFile, decryptFile), and the folder operations that drive it     *)
(* (encrypt-folder, decrypt-folder, cancel-operation).                     *)
(*                                                                         *)
(* Files are byte sequences, paths are sequences of characters.  The       *)
(* cryptographic primitives are idealised: scrypt is injective in the      *)
(* password for a given salt, AES-GCM is a position-dependent byte         *)
(* substitution, and distinct (key, iv, ciphertext) have distinct tags.    *)
(***************************************************************************)
EXTENDS Integers, Sequences, FiniteSets, TLC

VARIABLES
    fs,        \* the file system: path -> content, DOMAIN fs = existing files
    key,       \* key buffer of the encryptFile/decryptFile call: <<>> = none derived
    pc,        \* position inside the encryptFile/decryptFile call
    call,      \* arguments and locals of the encryptFile/decryptFile call
    res,       \* how the last encryptFile/decryptFile call settled
    aborted,   \* controller.signal.aborted
    events,    \* what sendProgress has sent, in order
    phase,     \* position of the single-file caller (encrypt, then decrypt)
    orig,      \* content of the source file when encryptFile was called
    pw1,       \* password handed to encryptFile
    pw2,       \* password handed to decryptFile
    flipAt,    \* offset (1-based) of the container byte changed, 0 = none
    truncTo,   \* length the container was cut to, -1 = not cut
    outBefore, \* what was at decryptFile's final output path when it was called
    cancelRequested,     \* let cancelRequested
    activeOpController,  \* let activeOpController: "null" or "controller"
    run,       \* locals of the encrypt-folder/decrypt-folder handler
    ret,       \* what the handler returned
    tree,      \* the folder as it was when the handler was entered
    ops,       \* the folder handlers invoked so far, each with its locals
    ui,        \* renderer: let running, and the state of the Cancel button
    toMain,    \* invocations sent by the renderer, not yet handled
    toRenderer, \* progress events and replies sent by main, not yet delivered
    erase,     \* locals and result of a secureDelete call
    walker,    \* a consumer of walk(root): the generator and what it yielded
    naming,    \* a path and the output names derived from it
    observer   \* renderer: the progress listener's maps, timers and display

fileVars == <<fs, key, pc, call, res, aborted, events>>
callerVars == <<phase, orig, pw1, pw2, flipAt, truncTo, outBefore>>
runVars == <<cancelRequested, activeOpController, run, ret, tree>>
uiVars == <<ops, ui, toMain, toRenderer>>
auxVars == <<erase, walker, naming, observer>>
vars == <<fs, key, pc, call, res, aborted, events,
          phase, orig, pw1, pw2, flipAt, truncTo, outBefore,
          cancelRequested, activeOpController, run, ret, tree,
          ops, ui, toMain, toRenderer,
          erase, walker, naming, observer>>

-----------------------------------------------------------------------------
(* Bounds of the model *)

MaxLen == 2        \* longest plaintext, in bytes
ChunkLen == 1      \* bytes a stream hands over per chunk

(* Program constants *)

SALT_LEN == 16
IV_LEN == 12
AUTH_TAG_LEN == 16
KEY_LEN == 32
MAGIC == <<69, 76, 69, 67, 84, 82, 79, 78>>     \* Buffer.from('ELECTRON')

PlainBytes == {1, 2}
Passwords == {1, 2}
SaltSeeds == {1, 2}
IvSeeds == {1}
HexChars == {"0"}
RandomFill == {9}
TruncLens == {0, 7, 35, 51}
NoFile == <<-1>>

-----------------------------------------------------------------------------
(* Helpers: byte strings, paths, the file system *)

RECURSIVE SeqsUpTo(_, _)
SeqsUpTo(S, n) ==
    IF n = 0 THEN {<<>>}
    ELSE LET shorter == SeqsUpTo(S, n - 1)
         IN  shorter \cup {Append(s, b) : s \in {t \in shorter : Len(t) = n - 1}, b \in S}

RECURSIVE Sum(_)
Sum(s) == IF s = <<>> THEN 0 ELSE Head(s) + Sum(Tail(s))

Min(a, b) == IF a < b THEN a ELSE b

Slice(s, from, to) == SubSeq(s, from, to)

EndsWith(p, suf) ==
    /\ Len(p) >= Len(suf)
    /\ SubSeq(p, Len(p) - Len(suf) + 1, Len(p)) = suf

ENC == <<".", "e", "n", "c">>
DEC == <<".", "d", "e", "c">>
TMP == <<".", "t", "m", "p", "-">>

Exists(f, p) == p \in DOMAIN f
Put(f, p, v) == [q \in (DOMAIN f) \cup {p} |-> IF q = p THEN v ELSE f[q]]
Remove(f, p) == [q \in (DOMAIN f) \ {p} |-> f[q]]
ReadOr(f, p) == IF Exists(f, p) THEN f[p] ELSE NoFile

-----------------------------------------------------------------------------
(* The primitives *)

RandomBytes(n, seed) == [i \in 1..n |-> seed]

\* scrypt(password, salt, 32, {N, r, p}): deterministic, and a different
\* password or a different salt gives a different key; never the zero key.
Scrypt(password, salt) ==
    [i \in 1..KEY_LEN |-> 1 + ((password * 97 + Sum(salt)) % 255)]

\* key.fill(0)
FillZero(k) == [i \in 1..Len(k) |-> 0]

\* AES in counter mode: byte i of the stream is shifted by a key stream byte.
KeyStream(k, iv, i) == (k[1] * 3 + Sum(iv) * 5 + i * 7) % 256
CipherUpdate(k, iv, offset, chunk) ==
    [i \in 1..Len(chunk) |-> (chunk[i] + KeyStream(k, iv, offset + i)) % 256]
DecipherUpdate(k, iv, offset, chunk) ==
    [i \in 1..Len(chunk) |-> (chunk[i] + 256 - KeyStream(k, iv, offset + i)) % 256]

\* a tag that does not depend on the key
AuthTagKeyless(k, iv, ct) ==
    [i \in 1..AUTH_TAG_LEN |->
        IF i = 1 THEN 0
        ELSE IF i = 2 THEN Sum(iv) % 256
        ELSE IF i = 3 THEN Len(ct) % 256
        ELSE IF i - 3 <= Len(ct) THEN ct[i - 3] ELSE 0]

\* cipher.getAuthTag(): 16 bytes that determine key, iv and ciphertext.
AuthTag(k, iv, ct) ==
    [i \in 1..AUTH_TAG_LEN |->
        IF i = 1 THEN k[1]
        ELSE IF i = 2 THEN Sum(iv) % 256
        ELSE IF i = 3 THEN Len(ct) % 256
        ELSE IF i - 3 <= Len(ct) THEN ct[i - 3] ELSE 0]

headerLen == Len(MAGIC) + SALT_LEN + IV_LEN


-----------------------------------------------------------------------------
(* The state of one encryptFile/decryptFile call *)

NewCall(op, path, password) ==
    [op |-> op, path |-> path, password |-> password,
     salt |-> <<>>, iv |-> <<>>, tag |-> <<>>,
     outPath |-> <<>>, tmpPath |-> <<>>,
     size |-> 0,          \* totalBytes of the CountingTransform
     pos |-> 0,           \* bytes the read stream has handed over
     seen |-> 0,          \* CountingTransform.seen
     acc |-> <<>>,        \* the ciphertext the cipher/decipher has absorbed
     handle |-> FALSE,    \* decryptFile's FileHandle is open
     synced |-> FALSE,    \* the temporary file was fsynced
     cleanup |-> "none"]  \* the catch block's unlink(tmpPath): "unlinked", "failed"

NoResult == [status |-> "none", value |-> <<>>, error |-> ""]

Ev(type, file, action, n, total, out, error) ==
    [type |-> type, file |-> file, action |-> action, n |-> n, total |-> total,
     out |-> out, error |-> error]

\* sendProgress({ type: 'file-progress', file, seen, total })
FileProgress(file, seen, total) == Ev("file-progress", file, "", seen, total, <<>>, "")

\* a counter that reports the length of the chunk
CounterSeenChunk(seen, chunk) == Len(chunk)

\* CountingTransform._transform: this.seen += chunk.length
CounterSeen(seen, chunk) == seen + Len(chunk)

\* CountingTransform._transform: this.push(chunk)
CounterPush(chunk) == chunk

\* a finally block that leaves the key as it is
KeepKey(k) == k

\* finally { key.fill(0) }
FinallyZeroKey(k) == IF k = <<>> THEN k ELSE FillZero(k)

Resolve(v) ==
    /\ res' = [status |-> "ok", value |-> v, error |-> ""]
    /\ pc' = "settled"
    /\ key' = FinallyZeroKey(key)

Reject(e) ==
    /\ res' = [status |-> "rejected", value |-> <<>>, error |-> e]
    /\ pc' = "settled"
    /\ key' = FinallyZeroKey(key)

-----------------------------------------------------------------------------
(* encryptFile(filePath, password, {signal}) *)

\* an encryption that writes over its source
EncryptInPlace(filePath) == filePath

\* const outPath = `${filePath}.enc`
EncryptOutPath(filePath) == filePath \o ENC

\* a header with the IV before the salt
HeaderIvFirst(salt, iv) == MAGIC \o iv \o salt

\* writeStream.write(MAGIC); writeStream.write(salt); writeStream.write(iv)
Header(salt, iv) == MAGIC \o salt \o iv

\* salt, iv = randomBytes; key = await scrypt(...)
EncryptStart ==
    /\ pc = "enc_call"
    /\ \E s \in SaltSeeds, v \in IvSeeds :
          LET salt == RandomBytes(SALT_LEN, s)
              iv == RandomBytes(IV_LEN, v)
          IN  /\ call' = [call EXCEPT !.salt = salt, !.iv = iv]
              /\ key' = Scrypt(call.password, salt)
    /\ pc' = "enc_open"
    /\ UNCHANGED <<fs, res, aborted, events>>

\* createCipheriv, createWriteStream(outPath) and the three header writes,
\* createReadStream, then stat(filePath) succeeds.
EncryptOpen ==
    /\ pc = "enc_open"
    /\ Exists(fs, call.path)
    /\ LET outPath == EncryptOutPath(call.path)
       IN  /\ fs' = Put(fs, outPath, Header(call.salt, call.iv))
           /\ call' = [call EXCEPT !.outPath = outPath,
                                   !.size = Len(fs[call.path]), !.pos = 0, !.seen = 0,
                                   !.acc = <<>>]
    /\ pc' = "enc_stream"
    /\ UNCHANGED <<key, res, aborted, events>>

\* stat(filePath) rejects: the function is left through finally, the write
\* stream that was already created still flushes the header.
EncryptStatFail ==
    /\ pc = "enc_open"
    /\ fs' = Put(fs, EncryptOutPath(call.path), Header(call.salt, call.iv))
    /\ call' = [call EXCEPT !.outPath = EncryptOutPath(call.path)]
    /\ Reject(IF Exists(fs, call.path) THEN "EIO" ELSE "ENOENT")
    /\ UNCHANGED <<aborted, events>>

\* streams that take no notice of the signal
SignalIgnored(signalAborted) == FALSE

\* createReadStream(path, { signal }) and the abort handler: once the signal
\* is aborted the streams are destroyed and forward nothing more
SignalStops(signalAborted) == signalAborted

\* pipeline(readStream, counter, cipher, writeStream): one chunk
EncryptChunk ==
    /\ pc = "enc_stream"
    /\ ~SignalStops(aborted)
    /\ call.pos < call.size
    /\ LET n == Min(ChunkLen, call.size - call.pos)
           chunk == Slice(fs[call.path], call.pos + 1, call.pos + n)
           ct == CipherUpdate(key, call.iv, call.pos, CounterPush(chunk))
       IN  /\ events' = Append(events,
                   FileProgress(call.path, CounterSeen(call.seen, chunk), call.size))
           /\ fs' = [fs EXCEPT ![call.outPath] = @ \o ct]
           /\ call' = [call EXCEPT !.pos = @ + n, !.seen = CounterSeen(@, chunk),
                                   !.acc = @ \o ct]
    /\ UNCHANGED <<key, pc, res, aborted>>

\* the pipeline ends: all of the source was read and the write stream closed
EncryptStreamEnd ==
    /\ pc = "enc_stream"
    /\ ~SignalStops(aborted)
    /\ call.pos = call.size
    /\ pc' = "enc_tag"
    /\ UNCHANGED <<fs, key, call, res, aborted, events>>

\* the abort handler destroys the streams, or a stream fails: pipeline rejects
EncryptStreamFail ==
    /\ pc = "enc_stream"
    /\ Reject(IF aborted THEN "aborted" ELSE "EIO")
    /\ UNCHANGED <<fs, call, aborted, events>>

\* authTag = cipher.getAuthTag(); appendFile(outPath, authTag); return outPath
EncryptTag ==
    /\ pc = "enc_tag"
    /\ \E ok \in BOOLEAN :
          IF ok
          THEN /\ fs' = [fs EXCEPT ![call.outPath] = @ \o AuthTag(key, call.iv, call.acc)]
               /\ Resolve(call.outPath)
          ELSE /\ fs' = fs
               /\ Reject("EIO")
    /\ UNCHANGED <<call, aborted, events>>

-----------------------------------------------------------------------------
(* decryptFile(encPath, password, {signal}) *)

\* a size check that only asks for the header
TooSmallHeaderOnly(fileSize) == fileSize < headerLen

\* if (fileSize < headerLen + AUTH_TAG_LEN) throw 'File too small to be valid'
TooSmall(fileSize) == fileSize < headerLen + AUTH_TAG_LEN

\* a header read that does not compare the magic
MagicUnchecked(headerBuf) == TRUE

\* magic.equals(MAGIC)
MagicOk(headerBuf) == Slice(headerBuf, 1, Len(MAGIC)) = MAGIC

\* an output that is written into the subdirectory d of the folder
DecryptOutInSubdir(encPath) ==
    <<"d", "/">> \o (IF EndsWith(encPath, ENC) THEN Slice(encPath, 1, Len(encPath) - Len(ENC))
                     ELSE encPath \o DEC)

\* an output name that always takes the fallback suffix
DecryptOutPathAppend(encPath) == encPath \o DEC

\* encPath.endsWith('.enc') ? encPath.slice(0, -4) : `${encPath}.dec`
DecryptOutPath(encPath) ==
    IF EndsWith(encPath, ENC) THEN Slice(encPath, 1, Len(encPath) - Len(ENC))
    ELSE encPath \o DEC

\* outPath + '.tmp-' + crypto.randomBytes(6).toString('hex')
TmpPath(outPath, hex) == outPath \o TMP \o <<hex>>

\* a pipeline that writes straight into the final output path
StreamToFinalPath(c) == c.outPath

\* the file the decrypting pipeline writes into
StreamTarget(c) == c.tmpPath

\* start and end (inclusive, 0-based) of the span handed to createReadStream
SpanStart == headerLen
SpanEnd(fileSize) == fileSize - AUTH_TAG_LEN - 1

\* open(encPath), stat, the size check, the header read, the magic check,
\* the reads of salt, iv and the trailing tag
DecryptOpen ==
    /\ pc = "dec_call"
    /\ IF ~Exists(fs, call.path)
       THEN /\ Reject("ENOENT")
            /\ call' = call
       ELSE LET data == fs[call.path]
                fileSize == Len(data)
            IN  IF TooSmall(fileSize)
                THEN /\ Reject("File too small to be valid")
                     /\ call' = [call EXCEPT !.size = fileSize, !.handle = FALSE]
                ELSE IF ~MagicOk(Slice(data, 1, Min(headerLen, fileSize)))
                THEN /\ Reject("Invalid file magic")
                     /\ call' = [call EXCEPT !.size = fileSize, !.handle = FALSE]
                ELSE /\ call' = [call EXCEPT
                            !.size = fileSize,
                            !.handle = TRUE,
                            !.salt = Slice(data, Len(MAGIC) + 1, Len(MAGIC) + SALT_LEN),
                            !.iv = Slice(data, Len(MAGIC) + SALT_LEN + 1, headerLen),
                            !.tag = Slice(data, fileSize - AUTH_TAG_LEN + 1, fileSize)]
                     /\ pc' = "dec_kdf"
                     /\ UNCHANGED <<key, res>>
    /\ UNCHANGED <<fs, aborted, events>>

\* key = await scrypt(password, salt, 32, ...)
DecryptDerive ==
    /\ pc = "dec_kdf"
    /\ key' = Scrypt(call.password, call.salt)
    /\ pc' = "dec_setup"
    /\ UNCHANGED <<fs, call, res, aborted, events>>

\* createDecipheriv, setAuthTag, outPath, tmpPath, createReadStream(encPath,
\* {start, end}) which throws when start > end, createWriteStream(tmpPath)
DecryptSetup ==
    /\ pc = "dec_setup"
    /\ \E hex \in HexChars :
          LET outPath == DecryptOutPath(call.path)
              tmpPath == TmpPath(outPath, hex)
              c2 == [call EXCEPT !.outPath = outPath, !.tmpPath = tmpPath,
                                 !.pos = 0, !.seen = 0, !.acc = <<>>,
                                 !.size = SpanEnd(call.size) - SpanStart + 1]
          IN  IF SpanStart > SpanEnd(call.size)
              THEN /\ Reject("ERR_OUT_OF_RANGE")
                   /\ call' = [call EXCEPT !.outPath = outPath, !.tmpPath = tmpPath,
                                           !.handle = FALSE]
                   /\ fs' = fs
              ELSE /\ call' = c2
                   /\ fs' = Put(fs, StreamTarget(c2), <<>>)
                   /\ pc' = "dec_stream"
                   /\ UNCHANGED <<key, res>>
    /\ UNCHANGED <<aborted, events>>

\* a catch block that rethrows without the unlink
CleanupSkipped(f, tmpPath, ok) == f

\* await fs.promises.unlink(tmpPath).catch(() => { }): ok is whether the
\* unlink system call succeeded
CleanupUnlink(f, tmpPath, ok) ==
    IF ok /\ Exists(f, tmpPath) THEN Remove(f, tmpPath) ELSE f

\* catch (err) { await unlink(tmpPath).catch(() => {}); throw err } and the
\* two finally blocks
DecryptFail(e) ==
    /\ \E ok \in BOOLEAN :
          /\ fs' = CleanupUnlink(fs, call.tmpPath, ok)
          /\ call' = [call EXCEPT !.handle = FALSE,
                                  !.cleanup = IF ok THEN "unlinked" ELSE "failed"]
    /\ Reject(e)

\* pipeline(readStream, counter, decipher, createWriteStream(tmpPath)): one chunk
DecryptChunk ==
    /\ pc = "dec_stream"
    /\ ~SignalStops(aborted)
    /\ call.pos < call.size
    /\ LET n == Min(ChunkLen, call.size - call.pos)
           chunk == Slice(fs[call.path], SpanStart + call.pos + 1, SpanStart + call.pos + n)
           piped == CounterPush(chunk)
           plain == DecipherUpdate(key, call.iv, call.pos, piped)
       IN  /\ events' = Append(events,
                   FileProgress(call.path, CounterSeen(call.seen, chunk), call.size))
           /\ fs' = [fs EXCEPT ![StreamTarget(call)] = @ \o plain]
           /\ call' = [call EXCEPT !.pos = @ + n, !.seen = CounterSeen(@, chunk),
                                   !.acc = @ \o piped]
    /\ UNCHANGED <<key, pc, res, aborted>>

\* a commit that renames at once
RenameWithoutFlush == "dec_rename"

\* what follows `await pipeline(...)`: the flush of the temporary file
AfterPipeline == "dec_sync"

\* the span is read: decipher.final() compares the tag of what it absorbed
\* with the tag given to setAuthTag
DecryptFinal ==
    /\ pc = "dec_stream"
    /\ ~SignalStops(aborted)
    /\ call.pos = call.size
    /\ IF AuthTag(key, call.iv, call.acc) = call.tag
       THEN /\ pc' = AfterPipeline
            /\ UNCHANGED <<fs, key, call, res>>
       ELSE DecryptFail("Unsupported state or unable to authenticate data")
    /\ UNCHANGED <<aborted, events>>

\* the abort handler destroys the streams, or a stream fails: pipeline rejects
DecryptStreamFail ==
    /\ pc = "dec_stream"
    /\ DecryptFail(IF aborted THEN "aborted" ELSE "EIO")
    /\ UNCHANGED <<aborted, events>>

\* open(tmpPath, 'r+'), sync, close; a failure is logged and ignored
DecryptSync ==
    /\ pc = "dec_sync"
    /\ \E ok \in BOOLEAN : call' = [call EXCEPT !.synced = ok]
    /\ pc' = "dec_rename"
    /\ UNCHANGED <<fs, key, res, aborted, events>>

\* rename(tmpPath, outPath); return outPath
DecryptRename ==
    /\ pc = "dec_rename"
    /\ \E ok \in BOOLEAN :
          IF ok
          THEN /\ fs' = Put(Remove(fs, StreamTarget(call)), call.outPath, fs[StreamTarget(call)])
               /\ Resolve(call.outPath)
               /\ call' = [call EXCEPT !.handle = FALSE]
          ELSE DecryptFail("EIO")
    /\ UNCHANGED <<aborted, events>>

-----------------------------------------------------------------------------
(* The locals of a folder handler *)

IdleRun ==
    [rpc |-> "idle", mode |-> "", password |-> 0,
     keepOriginals |-> FALSE, secureDelete |-> FALSE,
     total |-> 0, processed |-> 0, count |-> 0,
     walk |-> <<>>,      \* the suspended walk(folder) generator of the second pass
     file |-> <<>>,      \* the loop variable
     thrown |-> ""]      \* err.message of the handler's outer catch, "" = none

NoReturn == [status |-> "none", success |-> FALSE, processed |-> 0, error |-> ""]

\* no secureDelete call, no walk consumed, no name derived
IdleErase == [pc |-> "idle"]
IdleWalker == [pc |-> "idle"]
NoNames == [pc |-> "idle"]
IdleObserver == [pc |-> "idle"]

\* renderer.js after initialisation: running = false, Encrypt, Decrypt and Pick
\* enabled (startDisabled is the disabled property of the three, which
\* setRunning sets together), Cancel disabled and labelled Cancel
IdleUi == [running |-> FALSE, startDisabled |-> FALSE, cancelDisabled |-> TRUE,
           cancelText |-> "Cancel", timer |-> FALSE]

-----------------------------------------------------------------------------
(* A caller of one file: encryptFile(F, pw), then decryptFile(F.enc, pw2), as *)
(* runChecklist does; between the two the container may be changed on disk    *)
(* and the original may be deleted.  The signal may be aborted at any time.   *)

SourceFile == <<"a">>
Plaintexts == SeqsUpTo(PlainBytes, MaxLen)

InitFile ==
    /\ \E content \in Plaintexts, p \in Passwords, q \in Passwords :
          /\ fs = (SourceFile :> content)
          /\ orig = content
          /\ call = NewCall("enc", SourceFile, p)
          /\ pw1 = p
          /\ pw2 = q
    /\ key = <<>>
    /\ pc = "enc_call"
    /\ res = NoResult
    /\ aborted = FALSE
    /\ events = <<>>
    /\ phase = "enc"
    /\ flipAt = 0
    /\ truncTo = -1
    /\ outBefore = NoFile
    /\ cancelRequested = FALSE
    /\ activeOpController = "null"
    /\ run = IdleRun
    /\ ret = NoReturn
    /\ tree = <<>>
    /\ ops = <<>>
    /\ ui = IdleUi
    /\ toMain = <<>>
    /\ toRenderer = <<>>
    /\ erase = IdleErase
    /\ walker = IdleWalker
    /\ naming = NoNames
    /\ observer = IdleObserver

CallerAfterEncrypt ==
    /\ phase = "enc"
    /\ pc = "settled"
    /\ phase' = IF res.status = "ok" THEN "mid" ELSE "end"
    /\ UNCHANGED <<fileVars, orig, pw1, pw2, flipAt, truncTo, outBefore, runVars, uiVars, auxVars>>

\* one byte of the container is changed on disk
TamperFlip ==
    /\ phase = "mid"
    /\ flipAt = 0
    /\ truncTo = -1
    /\ \E i \in 1..Len(fs[res.value]) :
          /\ fs' = [fs EXCEPT ![res.value][i] = (@ + 1) % 256]
          /\ flipAt' = i
    /\ UNCHANGED <<key, pc, call, res, aborted, events, phase, orig, pw1, pw2, truncTo, outBefore, runVars, uiVars, auxVars>>

\* the container is cut short on disk
TamperTruncate ==
    /\ phase = "mid"
    /\ truncTo = -1
    /\ flipAt <= Len(MAGIC)
    /\ \E n \in TruncLens :
          /\ n < Len(fs[res.value])
          /\ fs' = [fs EXCEPT ![res.value] = Slice(@, 1, n)]
          /\ truncTo' = n
    /\ UNCHANGED <<key, pc, call, res, aborted, events, phase, orig, pw1, pw2, flipAt, outBefore, runVars, uiVars, auxVars>>

\* the original is removed after a successful encryption (keepOriginals = false)
CallerDeleteOriginal ==
    /\ phase = "mid"
    /\ Exists(fs, SourceFile)
    /\ flipAt = 0
    /\ truncTo = -1
    /\ fs' = Remove(fs, SourceFile)
    /\ UNCHANGED <<key, pc, call, res, aborted, events, callerVars, runVars, uiVars, auxVars>>

CallerDecrypt ==
    /\ phase = "mid"
    /\ phase' = "dec"
    /\ call' = NewCall("dec", res.value, pw2)
    /\ key' = <<>>
    /\ pc' = "dec_call"
    /\ res' = NoResult
    /\ outBefore' = ReadOr(fs, DecryptOutPath(res.value))
    /\ UNCHANGED <<fs, aborted, events, orig, pw1, pw2, flipAt, truncTo, runVars, uiVars, auxVars>>

CallerEnd ==
    /\ phase = "dec"
    /\ pc = "settled"
    /\ phase' = "end"
    /\ UNCHANGED <<fileVars, orig, pw1, pw2, flipAt, truncTo, outBefore, runVars, uiVars, auxVars>>

\* controller.abort()
Abort ==
    /\ phase \in {"enc", "dec"}
    /\ pc # "settled"
    /\ ~aborted
    /\ aborted' = TRUE
    /\ UNCHANGED <<fs, key, pc, call, res, events, callerVars, runVars, uiVars, auxVars>>

NextFile ==
    \/ (EncryptStart /\ UNCHANGED <<callerVars, runVars, uiVars, auxVars>>)
    \/ (EncryptOpen /\ UNCHANGED <<callerVars, runVars, uiVars, auxVars>>)
    \/ (EncryptStatFail /\ UNCHANGED <<callerVars, runVars, uiVars, auxVars>>)
    \/ (EncryptChunk /\ UNCHANGED <<callerVars, runVars, uiVars, auxVars>>)
    \/ (EncryptStreamEnd /\ UNCHANGED <<callerVars, runVars, uiVars, auxVars>>)
    \/ (EncryptStreamFail /\ UNCHANGED <<callerVars, runVars, uiVars, auxVars>>)
    \/ (EncryptTag /\ UNCHANGED <<callerVars, runVars, uiVars, auxVars>>)
    \/ (DecryptOpen /\ UNCHANGED <<callerVars, runVars, uiVars, auxVars>>)
    \/ (DecryptDerive /\ UNCHANGED <<callerVars, runVars, uiVars, auxVars>>)
    \/ (DecryptSetup /\ UNCHANGED <<callerVars, runVars, uiVars, auxVars>>)
    \/ (DecryptChunk /\ UNCHANGED <<callerVars, runVars, uiVars, auxVars>>)
    \/ (DecryptFinal /\ UNCHANGED <<callerVars, runVars, uiVars, auxVars>>)
    \/ (DecryptStreamFail /\ UNCHANGED <<callerVars, runVars, uiVars, auxVars>>)
    \/ (DecryptSync /\ UNCHANGED <<callerVars, runVars, uiVars, auxVars>>)
    \/ (DecryptRename /\ UNCHANGED <<callerVars, runVars, uiVars, auxVars>>)
    \/ CallerAfterEncrypt
    \/ TamperFlip
    \/ TamperTruncate
    \/ CallerDeleteOriginal
    \/ CallerDecrypt
    \/ CallerEnd
    \/ Abort

SpecFile == InitFile /\ [][NextFile]_vars

-----------------------------------------------------------------------------
(* walk(dir): the async generator over a directory tree.  A directory is a   *)
(* path that is a proper prefix, up to "/", of a file's path.  readdir lists *)
(* a directory in code-point order of the names.                             *)

SEP == "/"

CharCode(c) ==
    CASE c = "-" -> 45 [] c = "." -> 46 [] c = "/" -> 47 [] c = "0" -> 48
      [] c = "a" -> 97 [] c = "b" -> 98 [] c = "c" -> 99 [] c = "d" -> 100
      [] c = "e" -> 101 [] c = "m" -> 109 [] c = "n" -> 110 [] c = "p" -> 112
      [] c = "t" -> 116 [] OTHER -> 255

RECURSIVE PathLess(_, _)
PathLess(p, q) ==
    IF q = <<>> THEN FALSE
    ELSE IF p = <<>> THEN TRUE
    ELSE IF Head(p) = Head(q) THEN PathLess(Tail(p), Tail(q))
    ELSE CharCode(Head(p)) < CharCode(Head(q))

RECURSIVE SortPaths(_)
RECURSIVE SortFrom(_)
SortFrom(S) ==
    IF S = {} THEN <<>>
    ELSE LET first == CHOOSE x \in S : \A y \in S \ {x} : PathLess(x, y)
         IN  <<first>> \o SortPaths(S \ {first})

\* the paths of S in code-point order
SortPaths(S) == CHOOSE r \in {SortFrom(T) : T \in {S}} : TRUE

DirPrefix(dir) == IF dir = <<>> THEN <<>> ELSE dir \o <<SEP>>

IsUnder(dir, p) ==
    /\ Len(p) > Len(DirPrefix(dir))
    /\ SubSeq(p, 1, Len(DirPrefix(dir))) = DirPrefix(dir)

\* path.resolve(dir, dirent.name) of the entry of dir that leads to file p
EntryOf(dir, p) ==
    LET from == Len(DirPrefix(dir)) + 1
        seps == {i \in from..Len(p) : p[i] = SEP}
        cut == IF seps = {} THEN Len(p)
               ELSE (CHOOSE i \in seps : \A j \in seps : i <= j) - 1
    IN  SubSeq(p, 1, cut)

\* what the file system holds at a path that is neither a regular file nor a
\* directory with entries: a symbolic link, a directory without entries
SymLink == <<-2>>
EmptyDir == <<-3>>

\* dirent.isDirectory(), dirent.isFile(): both false for a symbolic link
IsDirectory(f, e) ==
    \/ \E q \in DOMAIN f : IsUnder(e, q)
    \/ e \in DOMAIN f /\ f[e] = EmptyDir
IsFile(f, e) == e \in DOMAIN f /\ f[e] \notin {SymLink, EmptyDir}

\* a walk that yields whatever is not a directory
KindNotDirectory(f, e) == IF IsDirectory(f, e) THEN "dir" ELSE "file"

\* the branch of walk() a dirent takes
KindOf(f, e) ==
    IF IsDirectory(f, e) THEN "dir" ELSE IF IsFile(f, e) THEN "file" ELSE "other"

\* fs.promises.readdir(dir, { withFileTypes: true }): the dirents, each with
\* its path.resolve(dir, dirent.name) and its type at the time of the listing
ReadDir(f, dir) ==
    LET paths == SortPaths({EntryOf(dir, p) : p \in {q \in DOMAIN f : IsUnder(dir, q)}})
    IN  [i \in 1..Len(paths) |->
            [path |-> paths[i],
             kind |-> KindOf(f, paths[i])]]

NoPath == <<"">>

\* One next() of the generator: the frames hold the dirents still to visit,
\* innermost directory last.  Gives the file yielded (NoPath when the walk is
\* over) and the generator's new frames.
RECURSIVE WalkNext(_, _)
RECURSIVE WalkFrom(_, _)
WalkFrom(frames, f) ==
    IF frames = <<>> THEN [file |-> NoPath, frames |-> <<>>]
    ELSE LET top == frames[Len(frames)]
             below == SubSeq(frames, 1, Len(frames) - 1)
         IN  IF top = <<>> THEN WalkNext(below, f)
             ELSE LET e == Head(top)
                      rest == Append(below, Tail(top))
                  IN  IF e.kind = "dir" THEN WalkNext(Append(rest, ReadDir(f, e.path)), f)
                      ELSE IF e.kind = "file" THEN [file |-> e.path, frames |-> rest]
                      ELSE WalkNext(rest, f)

\* next() on the generator whose frames are the value of the argument
WalkNext(frames, f) == CHOOSE r \in {WalkFrom(fr, f) : fr \in {frames}} : TRUE

\* whether the next next() of the generator awaits a readdir: the dirent it
\* resumes at is a directory
RECURSIVE WalkReads(_)
RECURSIVE WalkReadsFrom(_)
WalkReadsFrom(frames) ==
    IF frames = <<>> THEN FALSE
    ELSE LET top == frames[Len(frames)]
             below == SubSeq(frames, 1, Len(frames) - 1)
         IN  IF top = <<>> THEN WalkReads(below)
             ELSE IF Head(top).kind = "dir" THEN TRUE
             ELSE IF Head(top).kind = "file" THEN FALSE
             ELSE WalkReads(Append(below, Tail(top)))

WalkReads(frames) == CHOOSE b \in {WalkReadsFrom(fr) : fr \in {frames}} : TRUE

\* walk(folder) before its first next(): the root is listed on that call
WalkStart(folder) == << <<[path |-> folder, kind |-> "dir"]>> >>

\* a count of the files that stand in the listed directory itself
CountWithoutSubdirectories(frames, f) ==
    Cardinality({p \in DOMAIN f : IsFile(f, p) /\ \A i \in 1..Len(p) : p[i] # SEP})

\* for await (const _ of walk(folder)) total++
RECURSIVE WalkCount(_, _)
WalkCount(frames, f) ==
    LET step == WalkNext(frames, f)
    IN  IF step.file = NoPath THEN 0 ELSE 1 + WalkCount(step.frames, f)

-----------------------------------------------------------------------------
(* The IPC handlers encrypt-folder, decrypt-folder and cancel-operation *)

Folder == <<>>

\* a cancellation check that only works before the first file
CancelCheckAtStartOnly(flag, processed) == flag /\ processed = 0

\* if (cancelRequested) { ...; break; }
CancelCheck(flag, processed) == flag

\* a loop without the suffix test
SkipNothing(mode, file) == FALSE

\* encrypt: file.endsWith('.enc'); decrypt: !file.endsWith('.enc')
SkipFile(mode, file) ==
    IF mode = "encrypt" THEN EndsWith(file, ENC) ELSE ~EndsWith(file, ENC)

\* a result that reports the aggregate counter
ReturnAggregate(count, processed) == processed

\* return { success: true, processed: count }
ReturnProcessed(count, processed) == count

\* a handler that leaves the flag of an earlier request in place
KeepCancelFlag(flag) == flag

\* cancelRequested = false, the first statement of both handlers
ResetCancelFlag(flag) == FALSE

\* a handler that deletes the source of every file that succeeded
DeleteAlways(keepOriginals) == TRUE

\* if (!options.keepOriginals) { ... }
ShouldDelete(keepOriginals) == ~keepOriginals

\* a deletion whose failure is thrown into the per-file catch
DeleteThrowsOnFailure(removed) == ~removed

\* secureDelete catches every error; unlink(file).catch(() => sendLog(...))
DeleteThrows(removed) == FALSE

\* a per-file catch that gives up the run
LeaveLoopOnError(rpc) == "returned"

\* catch (err) { sendLog; sendProgress(error) } inside the loop body: the
\* loop goes on with processed++ and the next file
AfterFileError(rpc) == "loop"

\* an outer catch that reports the failure as a success
CatchReturnsSuccess(err) ==
    [status |-> "returned", success |-> TRUE, processed |-> 0, error |-> ""]

\* catch (err) { return { success: false, error: err.message } }
CatchReturn(err) ==
    [status |-> "returned", success |-> FALSE, processed |-> 0, error |-> err]

\* what secureDelete(file) overwrites the file with: size random bytes
Overwritten(content, byte) == [i \in 1..Len(content) |-> byte]

\* The file system after the deletion of a processed source.  secureDelete:
\* stat/open may fail (file intact), the passes overwrite the content, and
\* the unlink may fail (file left overwritten).  Plain unlink: removed or not.
AfterDelete(f, file, secure, outcome, byte) ==
    IF ~Exists(f, file) \/ outcome = "intact" THEN f
    ELSE IF outcome = "removed" THEN Remove(f, file)
    ELSE IF secure THEN [f EXCEPT ![file] = Overwritten(@, byte)]
    ELSE f

FileEvent(file, action, index, total, out, error) ==
    Ev("file", file, action, index, total, out, error)
ProgressEvent(processed, total) == Ev("progress", <<>>, "", processed, total, <<>>, "")

Returned(success, processed, error) ==
    [status |-> "returned", success |-> success, processed |-> processed, error |-> error]

\* a counter of the files that were tried, failed ones included
CountAfterAnyOutcome(count, ok) == count + 1

\* count++ is the last statement of the try block of the loop body: it is
\* reached only when encryptFile/decryptFile and the deletion did not throw
CountAfter(count, ok) == IF ok THEN count + 1 ELSE count

\* a handler that clears the controller only where it returns success
ClearedOnSuccessOnly(controller, success) == IF success THEN "null" ELSE controller

\* finally { activeOpController = null }: after the return of the try block
\* and after the return of the catch block alike
FinallyController(controller, success) == "null"

\* an index that counts the files that succeeded
StartIndexOfSucceeded(processed, count) == count + 1

\* sendProgress({ type: 'file', file, action: 'start', index: processed + 1, total })
StartIndex(processed, count) == processed + 1

\* the handler is entered: cancelRequested = false, a new AbortController
RunStart ==
    /\ run.rpc = "idle"
    /\ \E mode \in {"encrypt", "decrypt"}, password \in Passwords,
          keep \in BOOLEAN, sd \in BOOLEAN :
          run' = [IdleRun EXCEPT !.rpc = "count", !.mode = mode, !.password = password,
                                 !.keepOriginals = keep, !.secureDelete = sd]
    /\ cancelRequested' = ResetCancelFlag(cancelRequested)
    /\ activeOpController' = "controller"
    /\ aborted' = FALSE
    /\ tree' = fs
    /\ UNCHANGED <<fs, key, pc, call, res, events, callerVars, ret>>

\* for await (const _ of walk(folder)) total++; let processed = 0
RunCount ==
    /\ run.rpc = "count"
    /\ run' = [run EXCEPT !.rpc = "loop",
                          !.total = WalkCount(WalkStart(Folder), fs),
                          !.processed = 0,
                          !.walk = WalkStart(Folder)]
    /\ UNCHANGED <<fileVars, callerVars, cancelRequested, activeOpController, ret, tree>>

\* readdir rejects in one of the two passes: catch, return { success: false },
\* finally activeOpController = null
RunWalkFail ==
    /\ \/ run.rpc = "count"
       \/ run.rpc = "loop" /\ WalkReads(run.walk)
    /\ ret' = CatchReturn("EACCES")
    /\ run' = [run EXCEPT !.rpc = "returned", !.thrown = "EACCES"]
    /\ activeOpController' = FinallyController(activeOpController, FALSE)
    /\ UNCHANGED <<fileVars, callerVars, cancelRequested, tree>>

\* One turn of the loop head: the next file of the walk, the cancellation
\* check, the skip test, or the start event and the call of encryptFile /
\* decryptFile.  When the loop is left the handler returns.
RunLoop ==
    /\ run.rpc = "loop"
    /\ LET step == WalkNext(run.walk, fs)
           file == step.file
       IN  IF file = NoPath \/ CancelCheck(cancelRequested, run.processed)
           THEN /\ ret' = Returned(TRUE, ReturnProcessed(run.count, run.processed), "")
                /\ run' = [run EXCEPT !.rpc = "returned", !.walk = step.frames]
                /\ activeOpController' = FinallyController(activeOpController, TRUE)
                /\ UNCHANGED <<fs, key, pc, call, res, events>>
           ELSE IF SkipFile(run.mode, file)
           THEN /\ events' = Append(events, FileEvent(file, "skip", 0, 0, <<>>, ""))
                /\ run' = [run EXCEPT !.processed = @ + 1, !.walk = step.frames, !.file = file]
                /\ UNCHANGED <<fs, key, pc, call, res, activeOpController, ret>>
           ELSE /\ events' = Append(events,
                        FileEvent(file, "start", StartIndex(run.processed, run.count),
                                  run.total, <<>>, ""))
                /\ run' = [run EXCEPT !.rpc = "await", !.walk = step.frames, !.file = file]
                /\ call' = NewCall(IF run.mode = "encrypt" THEN "enc" ELSE "dec",
                                   file, run.password)
                /\ pc' = IF run.mode = "encrypt" THEN "enc_call" ELSE "dec_call"
                /\ key' = <<>>
                /\ res' = NoResult
                /\ UNCHANGED <<fs, activeOpController, ret>>
    /\ UNCHANGED <<aborted, callerVars, cancelRequested, tree>>

\* the awaited encryptFile/decryptFile settled: done or error event; with
\* keepOriginals the file is complete, otherwise its deletion follows
RunSettled ==
    /\ run.rpc = "await"
    /\ pc = "settled"
    /\ pc' = "idle"
    /\ IF res.status = "ok"
       THEN IF ~ShouldDelete(run.keepOriginals)
            THEN /\ events' = events \o
                        <<FileEvent(run.file, "done", 0, 0, res.value, ""),
                          ProgressEvent(run.processed + 1, run.total)>>
                 /\ run' = [run EXCEPT !.rpc = "loop", !.count = CountAfter(@, TRUE),
                                       !.processed = @ + 1]
            ELSE /\ events' = Append(events, FileEvent(run.file, "done", 0, 0, res.value, ""))
                 /\ run' = [run EXCEPT !.rpc = "delete"]
       ELSE /\ events' = events \o
                   <<FileEvent(run.file, "error", 0, 0, <<>>, res.error),
                     ProgressEvent(run.processed + 1, run.total)>>
            /\ run' = [run EXCEPT !.rpc = AfterFileError(run.rpc),
                                  !.count = CountAfter(@, FALSE), !.processed = @ + 1]
    /\ UNCHANGED <<fs, key, call, res, aborted, callerVars,
                   cancelRequested, activeOpController, ret, tree>>

\* secureDelete(file) or unlink(file); neither throws into the loop.  Then
\* count++, processed++ and the progress event.
RunDelete ==
    /\ run.rpc = "delete"
    /\ \E outcome \in {"removed", "intact", "left"}, byte \in RandomFill :
          /\ fs' = AfterDelete(fs, run.file, run.secureDelete, outcome, byte)
          /\ IF DeleteThrows(outcome = "removed")
             THEN /\ events' = events \o
                         <<FileEvent(run.file, "error", 0, 0, <<>>, "EPERM"),
                           ProgressEvent(run.processed + 1, run.total)>>
                  /\ run' = [run EXCEPT !.rpc = "loop", !.count = CountAfter(@, FALSE),
                                        !.processed = @ + 1]
             ELSE /\ events' = Append(events, ProgressEvent(run.processed + 1, run.total))
                  /\ run' = [run EXCEPT !.rpc = "loop", !.count = CountAfter(@, TRUE),
                                        !.processed = @ + 1]
    /\ UNCHANGED <<key, pc, call, res, aborted, callerVars,
                   cancelRequested, activeOpController, ret, tree>>

\* ipcMain.handle('cancel-operation')
Cancel ==
    /\ cancelRequested' = TRUE
    /\ aborted' = IF activeOpController # "null" THEN TRUE ELSE aborted
    /\ UNCHANGED <<fs, key, pc, call, res, events, callerVars, activeOpController, run, ret, tree>>

-----------------------------------------------------------------------------
(* A folder as the handlers find it: plain files and containers of earlier   *)
(* encryptions, in the root and in a subdirectory; in the last folder a       *)
(* plain file stands beside a container that bears its name.                 *)

\* the container encryptFile writes for a plaintext
Container(plain, password, saltSeed, ivSeed) ==
    LET salt == RandomBytes(SALT_LEN, saltSeed)
        iv == RandomBytes(IV_LEN, ivSeed)
        k == Scrypt(password, salt)
        ct == CipherUpdate(k, iv, 0, plain)
    IN  Header(salt, iv) \o ct \o AuthTag(k, iv, ct)

Trees ==
    { (<<"a">> :> <<1>>) @@ (<<"b">> :> <<2>>),
      (<<"a">> :> <<1>>) @@ (<<"b", ".", "e", "n", "c">> :> Container(<<2>>, 1, 1, 1)),
      (<<"a", ".", "e", "n", "c">> :> Container(<<1>>, 1, 1, 1))
          @@ (<<"d", "/", "b", ".", "e", "n", "c">> :> Container(<<2, 1>>, 1, 2, 1))
          @@ (<<"d", "/", "c">> :> <<>>),
      (<<"a">> :> <<1>>) @@ (<<"a", ".", "e", "n", "c">> :> Container(<<2>>, 1, 1, 1)) }

InitRun ==
    /\ fs \in Trees
    /\ key = <<>>
    /\ pc = "idle"
    /\ call = NewCall("", <<>>, 0)
    /\ res = NoResult
    /\ aborted = FALSE
    /\ events = <<>>
    /\ phase = "run"
    /\ orig = <<>>
    /\ pw1 = 0
    /\ pw2 = 0
    /\ flipAt = 0
    /\ truncTo = -1
    /\ outBefore = NoFile
    /\ cancelRequested = FALSE
    /\ activeOpController = "null"
    /\ run = IdleRun
    /\ ret = NoReturn
    /\ tree = fs
    /\ ops = <<>>
    /\ ui = IdleUi
    /\ toMain = <<>>
    /\ toRenderer = <<>>
    /\ erase = IdleErase
    /\ walker = IdleWalker
    /\ naming = NoNames
    /\ observer = IdleObserver

Next ==
    \/ (EncryptStart /\ UNCHANGED <<callerVars, runVars, uiVars, auxVars>>)
    \/ (EncryptOpen /\ UNCHANGED <<callerVars, runVars, uiVars, auxVars>>)
    \/ (EncryptStatFail /\ UNCHANGED <<callerVars, runVars, uiVars, auxVars>>)
    \/ (EncryptChunk /\ UNCHANGED <<callerVars, runVars, uiVars, auxVars>>)
    \/ (EncryptStreamEnd /\ UNCHANGED <<callerVars, runVars, uiVars, auxVars>>)
    \/ (EncryptStreamFail /\ UNCHANGED <<callerVars, runVars, uiVars, auxVars>>)
    \/ (EncryptTag /\ UNCHANGED <<callerVars, runVars, uiVars, auxVars>>)
    \/ (DecryptOpen /\ UNCHANGED <<callerVars, runVars, uiVars, auxVars>>)
    \/ (DecryptDerive /\ UNCHANGED <<callerVars, runVars, uiVars, auxVars>>)
    \/ (DecryptSetup /\ UNCHANGED <<callerVars, runVars, uiVars, auxVars>>)
    \/ (DecryptChunk /\ UNCHANGED <<callerVars, runVars, uiVars, auxVars>>)
    \/ (DecryptFinal /\ UNCHANGED <<callerVars, runVars, uiVars, auxVars>>)
    \/ (DecryptStreamFail /\ UNCHANGED <<callerVars, runVars, uiVars, auxVars>>)
    \/ (DecryptSync /\ UNCHANGED <<callerVars, runVars, uiVars, auxVars>>)
    \/ (DecryptRename /\ UNCHANGED <<callerVars, runVars, uiVars, auxVars>>)
    \/ (RunStart /\ UNCHANGED <<uiVars, auxVars>>)
    \/ (RunCount /\ UNCHANGED <<uiVars, auxVars>>)
    \/ (RunWalkFail /\ UNCHANGED <<uiVars, auxVars>>)
    \/ (RunLoop /\ UNCHANGED <<uiVars, auxVars>>)
    \/ (RunSettled /\ UNCHANGED <<uiVars, auxVars>>)
    \/ (RunDelete /\ UNCHANGED <<uiVars, auxVars>>)
    \/ (Cancel /\ UNCHANGED <<uiVars, auxVars>>)

Spec == InitRun /\ [][Next]_vars

\* The event loop runs every continuation that is ready and every I/O request
\* completes or fails: a handler that can take a step eventually takes one.
SpecLive == Spec /\ WF_vars(Next)

-----------------------------------------------------------------------------
(* The renderer and the handlers of main.js together.  The renderer sends    *)
(* encrypt-folder, decrypt-folder and cancel-operation over IPC; main handles *)
(* each invocation as it arrives, so that handlers overlap whenever the       *)
(* renderer invokes one while another awaits; main sends progress events and  *)
(* the reply of each invocation back, in order.  A handler is followed from   *)
(* one await to the next; what walk(folder) finds is a sequence of items:     *)
(* "file" (handed to encryptFile/decryptFile), "skip" (fails the suffix       *)
(* test) and "dir" (a subdirectory without files: a readdir, nothing          *)
(* yielded).  The events of type file and file-progress do not touch the      *)
(* state followed here and are left out of the channel.                       *)

MaxOps == 2        \* folder operations invoked in one behaviour
MaxPending == 2    \* invocations under way from the renderer to main

Controllers == <<"controller1", "controller2", "controller3">>

Plans == { <<"file">>, <<"skip", "file">>, <<"file", "skip">>, <<"file", "dir">> }

\* for await (const _ of walk(folder)) total++
PlanTotal(plan) == Cardinality({k \in 1..Len(plan) : plan[k] # "dir"})

NewOp(rpc, plan, controller, flag) ==
    [rpc |-> rpc, plan |-> plan, controller |-> controller,
     st |-> "count",       \* the await the handler is suspended at
     idx |-> 0,            \* items of the second walk consumed so far
     total |-> 0, processed |-> 0,
     signal |-> FALSE,     \* controller.signal.aborted
     result |-> "none",    \* "ok": success: true, "failed": success: false
     staleFlag |-> flag,   \* cancelRequested when the handler was entered
     cancelled |-> FALSE]  \* cancel-operation was handled since it was entered

InProgress(op) == op.st # "returned"

\* The loop of a handler from the head of a turn up to its next await: the
\* generator is resumed (a directory makes it await a readdir), then the
\* cancellation check, then the suffix test; when the loop is left the handler
\* returns.
RECURSIVE Advance(_, _)
Advance(op, flag) ==
    LET k == op.idx + 1
    IN  IF k > Len(op.plan) THEN [op EXCEPT !.st = "returned", !.result = "ok"]
        ELSE IF op.plan[k] = "dir" THEN [op EXCEPT !.st = "readdir", !.idx = k]
        ELSE IF CancelCheck(flag, op.processed)
             THEN [op EXCEPT !.st = "returned", !.result = "ok"]
        ELSE IF op.plan[k] = "skip"
             THEN Advance([op EXCEPT !.idx = k, !.processed = @ + 1], flag)
        ELSE [op EXCEPT !.st = "file", !.idx = k]

ProgressMsg(processed, total) == [type |-> "progress", processed |-> processed, total |-> total]
ReplyMsg(rpc) == [type |-> "reply", rpc |-> rpc]

\* what a handler that moved on leaves in the shared state: its finally block
\* clears activeOpController, and the reply of the invocation is sent
Settle(i, op, msgs) ==
    /\ ops' = [ops EXCEPT ![i] = op]
    /\ IF op.st = "returned"
       THEN /\ activeOpController' = FinallyController(activeOpController, op.result = "ok")
            /\ toRenderer' = toRenderer \o msgs \o <<ReplyMsg(op.rpc)>>
       ELSE /\ activeOpController' = activeOpController
            /\ toRenderer' = toRenderer \o msgs

\* a progress listener that leaves the running state to the click handlers
ProgressKeepsRunning(running, data) == running

\* if (data.processed === data.total) setRunning(false)
ProgressUnblocks(running, data) ==
    IF data.processed = data.total THEN FALSE ELSE running

\* setRunning(v): running = v, the buttons, cancelBtn.disabled = !v,
\* if (!v) cancelBtn.textContent = 'Cancel'
SetRunning(u, v) ==
    [u EXCEPT !.running = v, !.startDisabled = v, !.cancelDisabled = ~v,
              !.cancelText = IF ~v THEN "Cancel" ELSE @]

\* Encrypt or Decrypt is clicked: the buttons are enabled only while running
\* is false; setRunning(true), then the invocation is sent
UIClickStart ==
    /\ ~ui.startDisabled
    /\ Len(ops) + Cardinality({k \in 1..Len(toMain) : toMain[k] # "cancel-operation"}) < MaxOps
    /\ \E rpc \in {"encrypt-folder", "decrypt-folder"} : toMain' = Append(toMain, rpc)
    /\ ui' = SetRunning(ui, TRUE)
    /\ UNCHANGED <<ops, toRenderer, cancelRequested, activeOpController>>

\* Cancel is clicked: if (!running) return; the button is disabled and the
\* invocation is sent
UIClickCancel ==
    /\ ui.running
    /\ ~ui.cancelDisabled
    /\ Len(toMain) < MaxPending
    /\ ui' = [ui EXCEPT !.cancelDisabled = TRUE, !.cancelText = "Cancelling..."]
    /\ toMain' = Append(toMain, "cancel-operation")
    /\ UNCHANGED <<ops, toRenderer, cancelRequested, activeOpController>>

\* main: encrypt-folder or decrypt-folder is entered, up to the first readdir
MainStart ==
    /\ toMain # <<>>
    /\ Head(toMain) # "cancel-operation"
    /\ toMain' = Tail(toMain)
    /\ \E plan \in Plans :
          ops' = Append(ops, NewOp(Head(toMain), plan, Controllers[Len(ops) + 1],
                                   cancelRequested))
    /\ cancelRequested' = ResetCancelFlag(cancelRequested)
    /\ activeOpController' = Controllers[Len(ops) + 1]
    /\ UNCHANGED <<ui, toRenderer>>

\* main: cancel-operation
MainCancel ==
    /\ toMain # <<>>
    /\ Head(toMain) = "cancel-operation"
    /\ toMain' = Tail(toMain)
    /\ cancelRequested' = TRUE
    /\ ops' = [i \in 1..Len(ops) |->
                  [ops[i] EXCEPT
                      !.signal = @ \/ ops[i].controller = activeOpController,
                      !.cancelled = @ \/ InProgress(ops[i])]]
    /\ toRenderer' = Append(toRenderer, ReplyMsg("cancel-operation"))
    /\ UNCHANGED <<ui, activeOpController>>

\* the counting pass is over; the second walk starts with the root's readdir
OpCounted(i) ==
    /\ ops[i].st = "count"
    /\ ops' = [ops EXCEPT ![i] = [ops[i] EXCEPT !.st = "readdir", !.idx = 0,
                                                !.total = PlanTotal(ops[i].plan),
                                                !.processed = 0]]
    /\ UNCHANGED <<ui, toMain, toRenderer, cancelRequested, activeOpController>>

\* a readdir of either pass rejects: outer catch, success: false, finally
OpWalkFail(i) ==
    /\ ops[i].st \in {"count", "readdir"}
    /\ Settle(i, [ops[i] EXCEPT !.st = "returned", !.result = "failed"], <<>>)
    /\ UNCHANGED <<ui, toMain, cancelRequested>>

\* a readdir of the second pass resolves
OpReaddir(i) ==
    /\ ops[i].st = "readdir"
    /\ Settle(i, Advance(ops[i], cancelRequested), <<>>)
    /\ UNCHANGED <<ui, toMain, cancelRequested>>

\* encryptFile/decryptFile and the deletion that may follow are over, with or
\* without an error: processed++, the progress event, the next turn
OpFileSettled(i) ==
    /\ ops[i].st = "file"
    /\ LET op == [ops[i] EXCEPT !.processed = @ + 1]
       IN  Settle(i, Advance(op, cancelRequested),
                  <<ProgressMsg(op.processed, op.total)>>)
    /\ UNCHANGED <<ui, toMain, cancelRequested>>

\* the renderer takes the next message of main: a progress event goes to the
\* listener, a reply resumes the click handler that awaits it
RendererDeliver ==
    /\ toRenderer # <<>>
    /\ toRenderer' = Tail(toRenderer)
    /\ LET m == Head(toRenderer)
       IN  IF m.type = "progress"
           THEN ui' = IF ProgressUnblocks(ui.running, m) = ui.running THEN ui
                      ELSE SetRunning(ui, FALSE)
           ELSE IF m.rpc = "cancel-operation"
           THEN ui' = [ui EXCEPT !.timer = TRUE]
           ELSE ui' = SetRunning(ui, FALSE)
    /\ UNCHANGED <<ops, toMain, cancelRequested, activeOpController>>

\* a safety timer that enables Cancel whatever the state of the run
TimerEnablesAlways(u) == [u EXCEPT !.cancelDisabled = FALSE, !.cancelText = "Cancel"]

\* if (running) { cancelBtn.disabled = false; cancelBtn.textContent = 'Cancel'; }
TimerEnables(u) ==
    IF u.running THEN [u EXCEPT !.cancelDisabled = FALSE, !.cancelText = "Cancel"] ELSE u

\* the 10 s timer set after a cancel request fires
UITimer ==
    /\ ui.timer
    /\ ui' = TimerEnables([ui EXCEPT !.timer = FALSE])
    /\ UNCHANGED <<ops, toMain, toRenderer, cancelRequested, activeOpController>>

InitUI ==
    /\ fs = <<>>
    /\ key = <<>>
    /\ pc = "idle"
    /\ call = NewCall("", <<>>, 0)
    /\ res = NoResult
    /\ aborted = FALSE
    /\ events = <<>>
    /\ phase = "ui"
    /\ orig = <<>>
    /\ pw1 = 0
    /\ pw2 = 0
    /\ flipAt = 0
    /\ truncTo = -1
    /\ outBefore = NoFile
    /\ cancelRequested = FALSE
    /\ activeOpController = "null"
    /\ run = IdleRun
    /\ ret = NoReturn
    /\ tree = <<>>
    /\ ops = <<>>
    /\ ui \in {[IdleUi EXCEPT !.cancelDisabled = b] : b \in BOOLEAN}
    /\ toMain = <<>>
    /\ toRenderer = <<>>
    /\ erase = IdleErase
    /\ walker = IdleWalker
    /\ naming = NoNames
    /\ observer = IdleObserver

otherVars == <<fileVars, callerVars, run, ret, tree, auxVars>>

NextUI ==
    \/ (UIClickStart /\ UNCHANGED otherVars)
    \/ (UIClickCancel /\ UNCHANGED otherVars)
    \/ (UITimer /\ UNCHANGED otherVars)
    \/ (MainStart /\ UNCHANGED otherVars)
    \/ (MainCancel /\ UNCHANGED otherVars)
    \/ (RendererDeliver /\ UNCHANGED otherVars)
    \/ \E i \in 1..Len(ops) :
          \/ (OpCounted(i) /\ UNCHANGED otherVars)
          \/ (OpWalkFail(i) /\ UNCHANGED otherVars)
          \/ (OpReaddir(i) /\ UNCHANGED otherVars)
          \/ (OpFileSettled(i) /\ UNCHANGED otherVars)

SpecUI == InitUI /\ [][NextUI]_vars

\* The renderer with the Cancel button disabled in the markup of the page.
InitUIMarkup == InitUI /\ ui = IdleUi

SpecUIMarkup == InitUIMarkup /\ [][NextUI]_vars

-----------------------------------------------------------------------------
(* secureDelete(filePath, passes), in its two copies: the one of main.js and *)
(* the one of test_harness.js, which differ in what they return.  The call   *)
(* is followed from one await to the next; every awaited system call either  *)
(* succeeds or rejects.                                                      *)

MaxEraseLen == 3   \* longest file handed to secureDelete, in bytes
MaxPasses == 2     \* largest number of passes asked for
EraseChunk == 2    \* const chunk = 64 * 1024, scaled to the files of the model

ErasePath == <<"a">>

\* no encryptFile/decryptFile call, no folder run, no renderer activity
NothingElseRuns ==
    /\ key = <<>>
    /\ pc = "idle"
    /\ call = NewCall("", <<>>, 0)
    /\ res = NoResult
    /\ aborted = FALSE
    /\ events = <<>>
    /\ orig = <<>>
    /\ pw1 = 0
    /\ pw2 = 0
    /\ flipAt = 0
    /\ truncTo = -1
    /\ outBefore = NoFile
    /\ cancelRequested = FALSE
    /\ activeOpController = "null"
    /\ run = IdleRun
    /\ ret = NoReturn
    /\ tree = <<>>
    /\ ops = <<>>
    /\ ui = IdleUi
    /\ toMain = <<>>
    /\ toRenderer = <<>>

NewErase(copy, path, passes) ==
    [pc |-> "stat", copy |-> copy, path |-> path, passes |-> passes,
     size |-> 0, pass |-> 0, written |-> 0,
     open |-> FALSE,      \* fd is open
     failed |-> "",       \* the system call that rejected, "" = none
     result |-> "none",   \* what the call returned
     log |-> "",          \* what it logged: "removed" or "failed"
     passesDone |-> <<>>] \* per pass begun: the chunks written and whether it was flushed

\* a loop that stops one pass early
OnePassLess(pass, passes) == pass < passes - 1

\* for (let pass = 0; pass < passes; pass++)
MorePasses(pass, passes) == pass < passes

\* const toWrite = Math.min(chunk, size - written)
ToWrite(size, written) == Min(EraseChunk, size - written)

\* fd.write(buf, 0, toWrite, written) after crypto.randomFillSync(buf, 0, toWrite)
WriteAt(content, written, toWrite, byte) ==
    [i \in 1..Len(content) |->
        IF i > written /\ i <= written + toWrite THEN byte ELSE content[i]]

\* main.js: the function has no return statement
SecureDeleteResult(unlinked) == "undefined"

\* test_harness.js: return true after the unlink, return false in the catch
HarnessSecureDeleteResult(unlinked) == IF unlinked THEN "true" ELSE "false"

EraseResult(copy, unlinked) ==
    IF copy = "main" THEN SecureDeleteResult(unlinked)
    ELSE HarnessSecureDeleteResult(unlinked)

\* the head of the pass loop: another pass begins, or the try block is left
PassHead(e) ==
    IF MorePasses(e.pass, e.passes)
    THEN [e EXCEPT !.pc = "write", !.written = 0,
                   !.passesDone = Append(@, [chunks |-> <<>>, synced |-> FALSE])]
    ELSE [e EXCEPT !.pc = "close"]

\* a system call rejected inside the inner try: finally { await fd.close() }
ThrowInside(e, what) == [e EXCEPT !.pc = "close", !.failed = what]

\* a system call rejected outside the inner try, or close() itself: catch (err)
ThrowOutside(e, what) ==
    [e EXCEPT !.pc = "caught", !.failed = IF @ = "" THEN what ELSE @, !.open = FALSE]

\* const stats = await fs.promises.stat(filePath); const size = stats.size
EraseStat ==
    /\ erase.pc = "stat"
    /\ \E ok \in BOOLEAN :
          erase' = IF ok /\ Exists(fs, erase.path)
                   THEN [erase EXCEPT !.pc = "open", !.size = Len(fs[erase.path])]
                   ELSE ThrowOutside(erase, "stat")
    /\ fs' = fs

\* const fd = await fs.promises.open(filePath, 'r+'), then the loop is entered
EraseOpen ==
    /\ erase.pc = "open"
    /\ \E ok \in BOOLEAN :
          erase' = IF ok THEN PassHead([erase EXCEPT !.open = TRUE])
                   ELSE ThrowOutside(erase, "open")
    /\ fs' = fs

\* while (written < size) { randomFillSync; await fd.write(...); written += toWrite }
EraseWrite ==
    /\ erase.pc = "write"
    /\ erase.written < erase.size
    /\ \E ok \in BOOLEAN, byte \in RandomFill :
          LET toWrite == ToWrite(erase.size, erase.written)
              k == Len(erase.passesDone)
          IN  IF ok
              THEN /\ fs' = [fs EXCEPT ![erase.path] =
                                WriteAt(@, erase.written, toWrite, byte)]
                   /\ erase' = [erase EXCEPT
                          !.written = @ + toWrite,
                          !.passesDone[k].chunks =
                              Append(@, [at |-> erase.written, len |-> toWrite])]
              ELSE /\ fs' = fs
                   /\ erase' = ThrowInside(erase, "write")

\* the pass has written the whole file: await fd.sync(), then pass++
EraseSync ==
    /\ erase.pc = "write"
    /\ erase.written >= erase.size
    /\ \E ok \in BOOLEAN :
          LET k == Len(erase.passesDone)
          IN  erase' = IF ok
                       THEN PassHead([erase EXCEPT !.pass = @ + 1,
                                                   !.passesDone[k].synced = TRUE])
                       ELSE ThrowInside(erase, "sync")
    /\ fs' = fs

\* finally { await fd.close() }
EraseClose ==
    /\ erase.pc = "close"
    /\ \E ok \in BOOLEAN :
          erase' = IF ~ok THEN ThrowOutside(erase, "close")
                   ELSE IF erase.failed # "" THEN ThrowOutside(erase, erase.failed)
                   ELSE [erase EXCEPT !.pc = "unlink", !.open = FALSE]
    /\ fs' = fs

\* await fs.promises.unlink(filePath); sendLog('secureDelete: removed', ...)
EraseUnlink ==
    /\ erase.pc = "unlink"
    /\ \E ok \in BOOLEAN :
          IF ok
          THEN /\ fs' = Remove(fs, erase.path)
               /\ erase' = [erase EXCEPT !.pc = "returned", !.log = "removed",
                                         !.result = EraseResult(erase.copy, TRUE)]
          ELSE /\ fs' = fs
               /\ erase' = ThrowOutside(erase, "unlink")

\* catch (err) { sendLog('secureDelete failed for', ...) }
EraseCaught ==
    /\ erase.pc = "caught"
    /\ erase' = [erase EXCEPT !.pc = "returned", !.log = "failed",
                              !.result = EraseResult(erase.copy, FALSE)]
    /\ fs' = fs

EraseFiles == SeqsUpTo(PlainBytes, MaxEraseLen)

InitErase ==
    /\ NothingElseRuns
    /\ phase = "erase"
    /\ \/ fs = <<>>
       \/ \E content \in EraseFiles : fs = (ErasePath :> content)
    /\ \E copy \in {"main", "harness"}, passes \in 0..MaxPasses :
          erase = NewErase(copy, ErasePath, passes)
    /\ walker = IdleWalker
    /\ naming = NoNames
    /\ observer = IdleObserver

eraseOthers == <<key, pc, call, res, aborted, events, callerVars, runVars, uiVars,
                 walker, naming, observer>>

NextErase ==
    \/ (EraseStat /\ UNCHANGED eraseOthers)
    \/ (EraseOpen /\ UNCHANGED eraseOthers)
    \/ (EraseWrite /\ UNCHANGED eraseOthers)
    \/ (EraseSync /\ UNCHANGED eraseOthers)
    \/ (EraseClose /\ UNCHANGED eraseOthers)
    \/ (EraseUnlink /\ UNCHANGED eraseOthers)
    \/ (EraseCaught /\ UNCHANGED eraseOthers)

SpecErase == InitErase /\ [][NextErase]_vars

-----------------------------------------------------------------------------
(* A consumer of walk(root): it iterates the generator to its end over a     *)
(* tree of regular files, symbolic links, subdirectories and directories     *)
(* without entries, then calls walk(root) again on the same tree.            *)

WalkFilePaths == { <<"a">>, <<"c">>, <<"d", "/", "a">>, <<"d", "/", "e", "/", "a">> }
WalkLinkPaths == { <<"b">>, <<"d", "/", "b">> }
WalkEmptyDirs == { <<"e">>, <<"d", "/", "c">> }

WalkTrees ==
    { [p \in files \cup links \cup dirs |->
          IF p \in links THEN SymLink ELSE IF p \in dirs THEN EmptyDir ELSE <<1>>] :
      files \in SUBSET WalkFilePaths, links \in SUBSET WalkLinkPaths,
      dirs \in SUBSET WalkEmptyDirs }

NewWalker(round, first) ==
    [pc |-> "walking", frames |-> WalkStart(Folder), yielded |-> <<>>,
     round |-> round, first |-> first]

\* for await (const file of walk(root)): next() yields a path
WalkerYield ==
    /\ walker.pc = "walking"
    /\ LET step == WalkNext(walker.frames, fs)
       IN  /\ step.file # NoPath
           /\ walker' = [walker EXCEPT !.frames = step.frames,
                                       !.yielded = Append(@, step.file)]
    /\ fs' = fs

\* next() finds the generator done: the loop is left
WalkerReturn ==
    /\ walker.pc = "walking"
    /\ LET step == WalkNext(walker.frames, fs)
       IN  /\ step.file = NoPath
           /\ walker' = [walker EXCEPT !.frames = step.frames, !.pc = "done"]
    /\ fs' = fs

\* a readdir awaited by next() rejects: the generator throws
WalkerFail ==
    /\ walker.pc = "walking"
    /\ WalkReads(walker.frames)
    /\ walker' = [walker EXCEPT !.pc = "failed"]
    /\ fs' = fs

\* walk(root) is called a second time
WalkerAgain ==
    /\ walker.pc = "done"
    /\ walker.round = 1
    /\ walker' = NewWalker(2, walker.yielded)
    /\ fs' = fs

InitWalk ==
    /\ NothingElseRuns
    /\ phase = "walk"
    /\ fs \in WalkTrees
    /\ erase = IdleErase
    /\ walker = NewWalker(1, <<>>)
    /\ naming = NoNames
    /\ observer = IdleObserver

walkOthers == <<key, pc, call, res, aborted, events, callerVars, runVars, uiVars,
                erase, naming, observer>>

NextWalk ==
    \/ (WalkerYield /\ UNCHANGED walkOthers)
    \/ (WalkerReturn /\ UNCHANGED walkOthers)
    \/ (WalkerFail /\ UNCHANGED walkOthers)
    \/ (WalkerAgain /\ UNCHANGED walkOthers)

SpecWalk == InitWalk /\ [][NextWalk]_vars

\* the consumer asks for the next path as long as the generator is not done,
\* and every readdir completes or rejects
SpecWalkLive == SpecWalk /\ WF_vars(NextWalk)

-----------------------------------------------------------------------------
(* The output names: a path is given to encryptFile and the output of that   *)
(* to decryptFile, or it is given to decryptFile directly, or it is met by    *)
(* the loop of decrypt-folder.                                                *)

MaxNameLen == 5    \* longest path a name is derived from, in characters

NameChars == {"a", ".", "e", "n", "c"}
NamePaths == SeqsUpTo(NameChars, MaxNameLen)

NewNames(path) == [pc |-> "source", p |-> path, enc |-> <<>>, dec |-> <<>>]

\* encryptFile(p): const outPath = `${filePath}.enc`
NameEncrypt ==
    /\ naming.pc = "source"
    /\ naming' = [naming EXCEPT !.pc = "encrypted", !.enc = EncryptOutPath(naming.p)]

\* decryptFile on the output of encryptFile
NameDecrypt ==
    /\ naming.pc = "encrypted"
    /\ naming' = [naming EXCEPT !.pc = "decrypted", !.dec = DecryptOutPath(naming.enc)]

\* decryptFile(p) called on the path itself
NameDecryptDirect ==
    /\ naming.pc = "source"
    /\ naming' = [naming EXCEPT !.pc = "direct", !.dec = DecryptOutPath(naming.p)]

\* the loop of decrypt-folder meets the path: skip, or decryptFile(file)
NameDecryptInRun ==
    /\ naming.pc = "source"
    /\ naming' = IF SkipFile("decrypt", naming.p)
                 THEN [naming EXCEPT !.pc = "skipped"]
                 ELSE [naming EXCEPT !.pc = "in-run", !.dec = DecryptOutPath(naming.p)]

InitNames ==
    /\ NothingElseRuns
    /\ phase = "names"
    /\ fs = <<>>
    /\ erase = IdleErase
    /\ walker = IdleWalker
    /\ \E path \in NamePaths : naming = NewNames(path)
    /\ observer = IdleObserver

namesOthers == <<fileVars, callerVars, runVars, uiVars, erase, walker, observer>>

NextNames ==
    \/ (NameEncrypt /\ UNCHANGED namesOthers)
    \/ (NameDecrypt /\ UNCHANGED namesOthers)
    \/ (NameDecryptDirect /\ UNCHANGED namesOthers)
    \/ (NameDecryptInRun /\ UNCHANGED namesOthers)

SpecNames == InitNames /\ [][NextNames]_vars

-----------------------------------------------------------------------------
(* The progress listener of renderer.js and what main sends to it.  A        *)
(* handler of main is followed from one sendProgress to the next; each event  *)
(* is handed to the listener in the order sent.  The timers of the renderer   *)
(* (the 30 s pruning of fileStats, the 150 ms flush of the overall display)   *)
(* fire at any later moment, timers of equal delay in the order they were     *)
(* set.  The smoothed rate and the sample times of a fileStats entry are      *)
(* left out; seen, total and lastSeen are kept.                               *)

MaxRuns == 2       \* folder operations started in one behaviour
ObsFileSize == 2   \* bytes streamed for one file

ObsPaths == {<<"a">>, <<"b", ".", "e", "n", "c">>}
ObsPlans == {SortPaths(S) : S \in SUBSET ObsPaths}

\* let queuedProgress = null
NoProgress == [processed |-> -1, total |-> -1]

NewObserver ==
    [pc |-> "ready",              \* main: "ready", "loop", "file", "settled"
     runs |-> 0, mode |-> "", plan |-> <<>>, idx |-> 0,
     total |-> 0, processed |-> 0, file |-> <<>>, seen |-> 0,
     running |-> FALSE,           \* let running
     fileMap |-> {},              \* keys of fileMap
     fileStats |-> <<>>,          \* fileStats: path -> entry
     prune |-> <<>>,              \* paths whose 30 s timer is pending, oldest first
     queuedProgress |-> NoProgress,
     progressTimer |-> "null",    \* let progressTimer: "null" or "timer"
     flushPending |-> FALSE,      \* the timeout behind progressTimer has not fired
     overall |-> NoProgress,      \* the pair overallText shows
     received |-> 0,              \* events handed to the listener so far
     last |-> Ev("", <<>>, "", 0, 0, <<>>, "")]

\* updateFileItem(data)
UpdateFileItem(o, data) ==
    LET withLi == [o EXCEPT !.fileMap = @ \cup {data.file}]
        withStats ==
            IF Exists(o.fileStats, data.file) THEN withLi
            ELSE [withLi EXCEPT !.fileStats =
                     Put(@, data.file, [seen |-> 0, total |-> data.total, lastSeen |-> 0])]
    IN  IF data.action \in {"done", "skip", "error"}
        THEN [withStats EXCEPT !.prune = Append(@, data.file)]
        ELSE withStats

\* updateFileProgress({ file, seen, total })
UpdateFileProgress(o, data) ==
    IF data.file \notin o.fileMap THEN o
    ELSE [o EXCEPT !.fileStats =
             Put(@, data.file, [seen |-> data.n, total |-> data.total, lastSeen |-> data.n])]

\* the listener's branch for data.type === 'progress'
QueueProgress(o, data) ==
    [o EXCEPT !.queuedProgress = [processed |-> data.n, total |-> data.total],
              !.progressTimer = "timer",
              !.flushPending = IF o.progressTimer = "null" THEN TRUE ELSE @,
              !.running = ProgressUnblocks(@, ProgressMsg(data.n, data.total))]

\* the callback given to window.vault.onProgress
Listener(o, data) ==
    LET handled == IF data.type = "file" THEN UpdateFileItem(o, data)
                   ELSE IF data.type = "file-progress" THEN UpdateFileProgress(o, data)
                   ELSE QueueProgress(o, data)
    IN  [handled EXCEPT !.received = @ + 1, !.last = data]

\* a flush that leaves the timer variable set
FlushKeepsTimer(timer) == timer

\* if (progressTimer) { clearTimeout(progressTimer); progressTimer = null; }
FlushTimer(timer) == "null"

\* flushProgress()
FlushProgress(o) ==
    IF o.queuedProgress = NoProgress THEN o
    ELSE [o EXCEPT !.overall = o.queuedProgress,
                   !.queuedProgress = NoProgress,
                   !.progressTimer = FlushTimer(@),
                   !.flushPending = IF o.progressTimer # "null" THEN FALSE ELSE @]

\* Encrypt or Decrypt is clicked: setRunning(true), the handler is entered and
\* counts the files of the folder
ObsClickStart ==
    /\ observer.pc = "ready"
    /\ ~observer.running
    /\ observer.runs < MaxRuns
    /\ \E mode \in {"encrypt", "decrypt"}, plan \in ObsPlans :
          observer' = [observer EXCEPT !.pc = "loop", !.runs = @ + 1, !.mode = mode,
                                       !.plan = plan, !.idx = 0, !.total = Len(plan),
                                       !.processed = 0, !.running = TRUE]

\* the handler returns: the walk is over, the loop was left on cancellation or
\* a readdir failed; the click handler's finally does setRunning(false)
ObsReturn ==
    /\ observer.pc = "loop"
    /\ observer' = [observer EXCEPT !.pc = "ready", !.running = FALSE]

\* a file that fails the suffix test: the skip event, processed++
ObsSkip ==
    /\ observer.pc = "loop"
    /\ observer.idx < Len(observer.plan)
    /\ LET file == observer.plan[observer.idx + 1]
       IN  /\ SkipFile(observer.mode, file)
           /\ observer' = Listener([observer EXCEPT !.idx = @ + 1, !.processed = @ + 1],
                                   FileEvent(file, "skip", 0, 0, <<>>, ""))

\* the start event of a file, then encryptFile/decryptFile is called
ObsStart ==
    /\ observer.pc = "loop"
    /\ observer.idx < Len(observer.plan)
    /\ LET file == observer.plan[observer.idx + 1]
       IN  /\ ~SkipFile(observer.mode, file)
           /\ observer' = Listener([observer EXCEPT !.pc = "file", !.idx = @ + 1,
                                                    !.file = file, !.seen = 0],
                                   FileEvent(file, "start",
                                             StartIndex(observer.processed, 0),
                                             observer.total, <<>>, ""))

\* a chunk goes through the CountingTransform: a file-progress event
ObsChunk ==
    /\ observer.pc = "file"
    /\ observer.seen < ObsFileSize
    /\ LET seen == observer.seen + Min(ChunkLen, ObsFileSize - observer.seen)
       IN  observer' = Listener([observer EXCEPT !.seen = seen],
                                FileProgress(observer.file, seen, ObsFileSize))

\* encryptFile/decryptFile settles: the done event after the whole file was
\* streamed, or the error event
ObsSettle ==
    /\ observer.pc = "file"
    /\ \E action \in {"done", "error"} :
          /\ action = "done" => observer.seen = ObsFileSize
          /\ observer' = Listener([observer EXCEPT !.pc = "settled"],
                                  FileEvent(observer.file, action, 0, 0, <<>>, ""))

\* processed++; sendProgress({ type: 'progress', processed, total })
ObsProgress ==
    /\ observer.pc = "settled"
    /\ observer' = Listener([observer EXCEPT !.pc = "loop", !.processed = @ + 1],
                            ProgressEvent(observer.processed + 1, observer.total))

\* setTimeout(() => { fileStats.delete(file) }, 30_000) fires
ObsPruneFire ==
    /\ observer.pc # "idle"
    /\ observer.prune # <<>>
    /\ observer' = [observer EXCEPT !.fileStats = Remove(@, Head(observer.prune)),
                                    !.prune = Tail(@)]

\* setTimeout(() => { flushProgress(); }, PROGRESS_THROTTLE_MS) fires
ObsFlushFire ==
    /\ observer.pc # "idle"
    /\ observer.flushPending
    /\ observer' = FlushProgress([observer EXCEPT !.flushPending = FALSE])

\* a folder is dropped on the folder area: fileMap.clear()
ObsDrop ==
    /\ observer.pc # "idle"
    /\ observer.fileMap # {}
    /\ observer' = [observer EXCEPT !.fileMap = {}]

\* Pick (enabled while running is false) chose a folder: fileMap.clear(),
\* overallText = '0 / 0'
ObsPick ==
    /\ observer.pc # "idle"
    /\ ~observer.running
    /\ observer.fileMap # {} \/ observer.overall # [processed |-> 0, total |-> 0]
    /\ observer' = [observer EXCEPT !.fileMap = {},
                                    !.overall = [processed |-> 0, total |-> 0]]

InitObserver ==
    /\ NothingElseRuns
    /\ phase = "observer"
    /\ fs = <<>>
    /\ erase = IdleErase
    /\ walker = IdleWalker
    /\ naming = NoNames
    /\ observer = NewObserver

observerOthers == <<fileVars, callerVars, runVars, uiVars, erase, walker, naming>>

ObsPruneStep == ObsPruneFire /\ UNCHANGED observerOthers
ObsFlushStep == ObsFlushFire /\ UNCHANGED observerOthers

NextObserver ==
    \/ (ObsClickStart /\ UNCHANGED observerOthers)
    \/ (ObsReturn /\ UNCHANGED observerOthers)
    \/ (ObsSkip /\ UNCHANGED observerOthers)
    \/ (ObsStart /\ UNCHANGED observerOthers)
    \/ (ObsChunk /\ UNCHANGED observerOthers)
    \/ (ObsSettle /\ UNCHANGED observerOthers)
    \/ (ObsProgress /\ UNCHANGED observerOthers)
    \/ ObsPruneStep
    \/ ObsFlushStep
    \/ (ObsDrop /\ UNCHANGED observerOthers)
    \/ (ObsPick /\ UNCHANGED observerOthers)

SpecObserver == InitObserver /\ [][NextObserver]_vars

\* A timer that was set fires: the renderer's event loop is never blocked for
\* good.  Nothing is assumed about main or the user.
SpecObserverLive ==
    SpecObserver /\ WF_vars(ObsPruneStep) /\ WF_vars(ObsFlushStep)

-----------------------------------------------------------------------------
(* Properties of encryptFile and decryptFile, checked under SpecFile *)

AuthError == "Unsupported state or unable to authenticate data"
TooSmallError == "File too small to be valid"
MagicError == "Invalid file magic"

\* errors of the environment: a failing stream or system call, an abort
EnvErrors == {"EIO", "aborted"}

DecryptCalled == phase \in {"dec", "end"} /\ call.op = "dec"
DecryptSettled == DecryptCalled /\ pc = "settled"
Untampered == flipAt = 0 /\ truncTo = -1
FinalPath == DecryptOutPath(call.path)
FinalPathUntouched == ReadOr(fs, FinalPath) = outBefore
NoTmpFile == \A hex \in HexChars : ~Exists(fs, TmpPath(FinalPath, hex))
ContainerLen == IF Exists(fs, call.path) THEN Len(fs[call.path]) ELSE -1
MinContainerLen == Len(MAGIC) + SALT_LEN + IV_LEN + AUTH_TAG_LEN

\* C1: round trip.  When encryptFile(F, pw) succeeded and the container was
\* left alone, decryptFile(F.enc, pw) with the same password succeeds (unless
\* the environment fails it) and the file at the returned path equals the
\* original content of F.
C1_RoundTrip ==
    (DecryptSettled /\ Untampered /\ pw2 = pw1 /\ res.error \notin EnvErrors)
        => /\ res.status = "ok"
           /\ Exists(fs, res.value)
           /\ fs[res.value] = orig

\* The round trip of every non-empty file.
RoundTripNonEmpty ==
    (DecryptSettled /\ Untampered /\ pw2 = pw1 /\ res.error \notin EnvErrors
        /\ orig # <<>>)
        => /\ res.status = "ok"
           /\ Exists(fs, res.value)
           /\ fs[res.value] = orig

RoundTripDone ==
    DecryptSettled /\ Untampered /\ pw2 = pw1 /\ res.status = "ok" /\ Len(orig) = MaxLen

\* C2: partial-output safety of decryptFile.  Until decryptFile has returned
\* its output path, the final output path holds what it held before the call;
\* when it has, the final path holds the completely streamed plaintext.  So
\* no failing path leaves a file written by the call at the final path.
C2_PartialOutputSafety ==
    DecryptCalled =>
        IF pc = "settled" /\ res.status = "ok"
        THEN /\ Exists(fs, FinalPath)
             /\ call.pos = call.size
             /\ Len(fs[FinalPath]) = call.size
             /\ NoTmpFile
        ELSE FinalPathUntouched

C2_Witness ==
    /\ DecryptSettled
    /\ res.status = "rejected"
    /\ call.pos > 0
    /\ outBefore = NoFile

\* C3 as claimed: when decryptFile fails after it started streaming into the
\* temporary file, the final path is untouched and the temporary file is gone.
C3_TmpAlwaysRemoved ==
    (DecryptSettled /\ res.status = "rejected" /\ call.tmpPath # <<>>
        /\ res.error # "ERR_OUT_OF_RANGE")
        => /\ FinalPathUntouched
           /\ ~Exists(fs, call.tmpPath)

\* C3 amended: when decryptFile fails after it started streaming into the
\* temporary file, the final path is untouched, the error propagated is the
\* one that made it fail (never an error of the cleanup), the catch block has
\* tried to unlink the temporary file, and the temporary file is gone unless
\* that unlink itself failed.
C3_CleanupBestEffort ==
    (DecryptSettled /\ res.status = "rejected" /\ call.tmpPath # <<>>
        /\ res.error # "ERR_OUT_OF_RANGE")
        => /\ FinalPathUntouched
           /\ call.cleanup \in {"unlinked", "failed"}
           /\ (call.cleanup = "unlinked" => ~Exists(fs, call.tmpPath))
           /\ res.error \in EnvErrors \cup {AuthError}

C3_Witness ==
    /\ DecryptSettled
    /\ res.status = "rejected"
    /\ res.error = AuthError
    /\ call.pos > 0
    /\ call.cleanup = "unlinked"
    /\ ~Exists(fs, call.tmpPath)

\* C4: wrong password.  For a container made by encryptFile with pw,
\* decryptFile with another password fails with the authentication error
\* and leaves the final output path as it was.
C4_WrongPassword ==
    (DecryptSettled /\ Untampered /\ pw2 # pw1 /\ res.error \notin EnvErrors)
        => /\ res.status = "rejected"
           /\ res.error = AuthError
           /\ FinalPathUntouched

\* C5: tamper detection.  With one byte of the ciphertext or of the trailing
\* tag changed, decryptFile with the right password fails with the
\* authentication error and leaves the final output path as it was.
C5_TamperDetected ==
    (DecryptSettled /\ flipAt > headerLen /\ truncTo = -1 /\ pw2 = pw1
        /\ res.error \notin EnvErrors)
        => /\ res.status = "rejected"
           /\ res.error = AuthError
           /\ FinalPathUntouched

\* C6: truncation.  For a file shorter than 8 + 16 + 12 + 16 bytes decryptFile
\* never derives a key, never reaches the decipher, creates no temporary and
\* no output file, and fails with the too-small error.
C6_Truncated ==
    (DecryptCalled /\ ContainerLen >= 0 /\ ContainerLen < MinContainerLen)
        => /\ key = <<>>
           /\ pc \in {"dec_call", "settled"}
           /\ NoTmpFile
           /\ FinalPathUntouched
           /\ (pc = "settled" => res.status = "rejected" /\ res.error = TooSmallError)

C6_Witness ==
    /\ DecryptSettled
    /\ ContainerLen = MinContainerLen - 1
    /\ flipAt = 0
    /\ res.error = TooSmallError

\* C7: invalid magic.  For a file of at least 52 bytes whose first 8 bytes are
\* not the magic, decryptFile fails with the invalid-magic error without
\* deriving a key and without creating a temporary or output file; a file that
\* is too short as well is reported as too small.
C7_InvalidMagic ==
    (DecryptCalled /\ ContainerLen >= Len(MAGIC)
        /\ SubSeq(fs[call.path], 1, Len(MAGIC)) # MAGIC)
        => /\ key = <<>>
           /\ pc \in {"dec_call", "settled"}
           /\ NoTmpFile
           /\ FinalPathUntouched
           /\ (pc = "settled" =>
                 /\ res.status = "rejected"
                 /\ res.error = IF ContainerLen >= MinContainerLen
                                THEN MagicError ELSE TooSmallError)

C7_Witness ==
    /\ DecryptSettled
    /\ ContainerLen >= MinContainerLen
    /\ flipAt \in 1..Len(MAGIC)
    /\ res.error = MagicError

C7_WitnessShort ==
    /\ DecryptSettled
    /\ ContainerLen < MinContainerLen
    /\ flipAt \in 1..Len(MAGIC)
    /\ res.error = TooSmallError

\* C8: key zeroing.  Whenever an encryptFile or decryptFile call has settled,
\* on whatever path, the key buffer it derived holds 32 zero bytes.
C8_KeyZeroed ==
    pc \in {"settled", "idle"} =>
        \/ key = <<>>
        \/ /\ Len(key) = KEY_LEN
           /\ \A i \in 1..KEY_LEN : key[i] = 0

C8_Witness ==
    /\ pc = "settled"
    /\ res.status = "rejected"
    /\ res.error = "aborted"
    /\ key # <<>>
    /\ call.op = "dec"

-----------------------------------------------------------------------------
(* Properties of the folder handlers, checked under Spec *)

RunReturnedOk == ret.status = "returned" /\ ret.success

NumFileEvents(action) ==
    Cardinality({i \in 1..Len(events) :
                    events[i].type = "file" /\ events[i].action = action})

NewEvents == SubSeq(events', Len(events) + 1, Len(events'))

\* C9: cancellation between files.  While the cancellation flag of a run is
\* set, no step emits a start event or enters encryptFile/decryptFile, and the
\* step the loop head takes is to leave the loop and return.
C9_NoStartAfterCancel ==
    [][(cancelRequested /\ run.rpc \notin {"idle", "returned"})
        => /\ \A i \in 1..Len(NewEvents) : NewEvents[i].action # "start"
           /\ (pc' \in {"enc_call", "dec_call"} => pc' = pc)
           /\ (run.rpc = "loop" /\ run' # run => run'.rpc = "returned")]_vars

C9_Witness ==
    /\ RunReturnedOk
    /\ cancelRequested
    /\ NumFileEvents("start") >= 1
    /\ run.processed < run.total

\* C10 as claimed: the processed count of the result equals the aggregate
\* counter, in which succeeded, skipped and failed files all count.
C10_ProcessedIsAggregate ==
    RunReturnedOk => ret.processed = run.processed

\* C10 amended: the processed count of the result is the number of files
\* whose encryptFile/decryptFile call succeeded; it is the aggregate counter
\* less the skipped and the failed files.
C10_ProcessedIsSucceeded ==
    RunReturnedOk =>
        /\ ret.processed = run.processed - NumFileEvents("skip") - NumFileEvents("error")
        /\ ret.processed = run.count

C10_Witness ==
    /\ RunReturnedOk
    /\ NumFileEvents("skip") >= 1
    /\ NumFileEvents("error") >= 1
    /\ ret.processed >= 1
    /\ ret.processed < run.processed

-----------------------------------------------------------------------------
(* The policies of a run: skipping, failures, progress, result, deletion *)

HasEvent(p, action) ==
    \E i \in 1..Len(events) :
        events[i].type = "file" /\ events[i].action = action /\ events[i].file = p

NumProgress == Cardinality({i \in 1..Len(events) : events[i].type = "progress"})

RunEntered == run.rpc # "idle"

\* the handler left the loop because the walk was over
RunCompleted == run.rpc = "returned" /\ run.thrown = "" /\ ~cancelRequested

\* the files the skip policy is about: with the suffix .enc in an encrypt
\* run, without it in a decrypt run
ToBeSkipped(p) == (run.mode = "encrypt") <=> EndsWith(p, ENC)

\* C11: skip policy.  A file that ends with .enc in an encrypt run, or does
\* not in a decrypt run, is never handed to encryptFile/decryptFile, gets no
\* start, done or error event and is never deleted, whatever the options are;
\* each skip counts as processed, and a run that walks the whole folder emits
\* a skip event for every such file.
C11_SkipPolicy ==
    RunEntered =>
        /\ \A p \in DOMAIN tree :
              ToBeSkipped(p) =>
                  /\ p \in DOMAIN fs
                  /\ call.path # p
                  /\ ~HasEvent(p, "start")
                  /\ ~HasEvent(p, "done")
                  /\ ~HasEvent(p, "error")
                  /\ (RunCompleted => HasEvent(p, "skip"))
        /\ \A p \in DOMAIN tree : HasEvent(p, "skip") => ToBeSkipped(p)
        /\ (run.rpc \in {"loop", "returned"} /\ run.thrown = ""
               => run.processed = NumFileEvents("skip") + NumProgress)

C11_Witness ==
    /\ RunCompleted
    /\ run.mode = "encrypt"
    /\ ~run.keepOriginals
    /\ run.secureDelete
    /\ NumFileEvents("skip") = 1
    /\ NumFileEvents("done") = 1
    /\ run.processed = 2

\* C12: per-file failure isolation.  A file with an error event is not
\* deleted, the handler stays in its loop, so a run that is neither cancelled
\* nor stopped by a directory error handles every file of the folder, and it
\* returns success: true.
C12_FailureIsolation ==
    RunEntered =>
        /\ \A p \in DOMAIN tree :
              HasEvent(p, "error") => p \in DOMAIN fs /\ fs[p] = tree[p]
        /\ (run.rpc = "returned" /\ run.thrown = ""
               => ret.status = "returned" /\ ret.success)
        /\ (RunCompleted =>
               /\ run.processed = run.total
               /\ \A p \in DOMAIN tree : HasEvent(p, "skip") \/ HasEvent(p, "start"))

C12_Witness ==
    /\ RunCompleted
    /\ ret.success
    /\ \E i \in 1..Len(events), j \in 1..Len(events) :
          /\ i < j
          /\ events[i].type = "file" /\ events[i].action = "error"
          /\ events[j].type = "file" /\ events[j].action = "start"
          /\ events[j].file # events[i].file

\* C13: aggregate progress.  Every file the run has handled, skipped ones
\* included, was followed by its own progress event: there are as many
\* progress events as handled files, and the k-th reports processed = k.
C13_ProgressAfterEveryFile ==
    (run.rpc \in {"loop", "returned"} /\ run.thrown = "") =>
        /\ NumProgress = run.processed
        /\ \A i \in 1..Len(events) :
              events[i].type = "progress" =>
                  events[i].n = Cardinality({j \in 1..i : events[j].type = "progress"})

\* the result the handler returned matches the way it left the try block
TerminalResultOk ==
    /\ (run.rpc = "returned") <=> (ret.status = "returned")
    /\ ret.status = "returned" =>
          /\ ret.success <=> (run.thrown = "")
          /\ ~ret.success => ret.error = run.thrown /\ ret.error = "EACCES"
          /\ ret.success => ret.error = ""
    /\ (run.thrown # "") => run.rpc = "returned"

\* C14: terminal result.  A run returns success: false exactly when a readdir
\* of the counting or the processing pass threw into the outer catch; file
\* failures, delete failures and cancellation end in success: true.  The
\* result, once returned, is never replaced, and every run that was entered
\* returns.
C14_TerminalResult ==
    /\ []TerminalResultOk
    /\ [][ret.status = "returned" => ret' = ret]_vars
    /\ (RunEntered ~> (ret.status = "returned"))

C14_Witness ==
    /\ ret.status = "returned"
    /\ ~ret.success
    /\ ret.error = "EACCES"
    /\ NumFileEvents("start") >= 1
    /\ run.processed < run.total

\* the path is where the run writes the output of a file it started
OutputOfStarted(p) ==
    \E q \in DOMAIN tree :
        /\ HasEvent(q, "start")
        /\ p = IF run.mode = "encrypt" THEN EncryptOutPath(q) ELSE DecryptOutPath(q)

\* C15: delete policy.  A file of the folder is gone, or overwritten with
\* random bytes, only if keepOriginals is false and its done event was
\* emitted; overwriting happens only with secureDelete; a file that was
\* skipped or failed (an interrupted call fails) is never deleted.  (What
\* the run writes at the output path of a file is not a deletion.)
C15_DeletePolicy ==
    RunEntered =>
        \A p \in DOMAIN tree :
            /\ p \notin DOMAIN fs =>
                  /\ ~run.keepOriginals
                  /\ HasEvent(p, "done")
                  /\ ~HasEvent(p, "error")
                  /\ ~HasEvent(p, "skip")
            /\ (p \in DOMAIN fs /\ fs[p] # tree[p] /\ ~OutputOfStarted(p)) =>
                  /\ ~run.keepOriginals
                  /\ run.secureDelete
                  /\ HasEvent(p, "done")
                  /\ \E byte \in RandomFill : fs[p] = Overwritten(tree[p], byte)

C15_Witness ==
    /\ RunCompleted
    /\ run.mode = "encrypt"
    /\ ~run.keepOriginals
    /\ ~run.secureDelete
    /\ <<"a">> \in DOMAIN tree /\ <<"a">> \notin DOMAIN fs
    /\ <<"b">> \in DOMAIN tree /\ <<"b">> \notin DOMAIN fs
    /\ <<"a", ".", "e", "n", "c">> \in DOMAIN fs
    /\ <<"b", ".", "e", "n", "c">> \in DOMAIN fs

\* positions of a call that is deriving its key or streaming
MidFile == {"enc_call", "enc_open", "enc_stream", "dec_kdf", "dec_setup", "dec_stream"}

\* the last call of the run was ended by the abort signal
CallAborted == RunEntered /\ res.status = "rejected" /\ res.error = "aborted"

\* once the signal is aborted during a call, the call forwards no further
\* byte and can only end rejected
AbortUnwinds ==
    (aborted /\ run.rpc = "await" /\ pc \in MidFile) =>
        /\ pc' \in MidFile \cup {"settled"}
        /\ call'.pos = call.pos
        /\ call'.acc = call.acc
        /\ (pc' = "settled" => res'.status = "rejected")

\* what an aborted call leaves behind, apart from the temporary file: the
\* source as it was, for decrypt the final output path as it was, for encrypt
\* a .enc output without tag; the run deletes nothing and starts no other file
AbortLeaves ==
    /\ call.path \in DOMAIN fs
    /\ fs[call.path] = tree[call.path]
    /\ run.rpc \in {"await", "loop", "returned"}
    /\ \A i \in 1..Len(events) :
          (events[i].type = "file" /\ events[i].action = "start" /\ events[i].file # call.path)
              => \E j \in (i + 1)..Len(events) :
                    events[j].type = "file" /\ events[j].action = "start"
                        /\ events[j].file = call.path
    /\ call.op = "dec" =>
          ReadOr(fs, DecryptOutPath(call.path)) = ReadOr(tree, DecryptOutPath(call.path))
    /\ call.op = "enc" =>
          /\ fs[EncryptOutPath(call.path)] = Header(call.salt, call.iv) \o call.acc
          /\ Len(call.acc) <= Len(fs[call.path])

\* C17 as claimed: mid-file cancellation.  An abort during key derivation or
\* streaming ends the call rejected with no further byte processed; the source
\* stays, the run starts no other file, encrypt leaves at most a partial .enc,
\* decrypt leaves the final path untouched and the temporary file is removed.
C17_MidFileCancel ==
    /\ [][AbortUnwinds]_vars
    /\ [](CallAborted =>
            /\ AbortLeaves
            /\ (call.op = "dec" => ~Exists(fs, call.tmpPath)))

\* C17 amended: as claimed, except that the temporary file is removed unless
\* the unlink of the cleanup itself failed.
C17_MidFileCancelBestEffort ==
    /\ [][AbortUnwinds]_vars
    /\ [](CallAborted =>
            /\ AbortLeaves
            /\ (call.op = "dec" =>
                   /\ call.cleanup \in {"unlinked", "failed"}
                   /\ (call.cleanup = "unlinked" => ~Exists(fs, call.tmpPath))))

C17_Witness ==
    /\ CallAborted
    /\ call.op = "dec"
    /\ call.pos >= 1
    /\ call.pos < call.size
    /\ call.cleanup = "unlinked"
    /\ run.rpc = "returned"
    /\ ret.success
    /\ run.processed < run.total

\* C20: delete failures are not fatal.  Every done event is followed by the
\* progress event of its file, never by an error event for it, and the file
\* is counted in count and in the result, also when its source is still there
\* after the deletion was attempted.
C20_DeleteFailureNotFatal ==
    RunEntered =>
        /\ \A i \in 1..Len(events) :
              (events[i].type = "file" /\ events[i].action = "done") =>
                  /\ ~HasEvent(events[i].file, "error")
                  /\ IF i = Len(events) THEN run.rpc = "delete"
                     ELSE events[i + 1].type = "progress"
        /\ run.count = NumFileEvents("done") - (IF run.rpc = "delete" THEN 1 ELSE 0)
        /\ (RunReturnedOk => ret.processed = NumFileEvents("done"))
        /\ run.thrown \in {"", "EACCES"}

C20_Witness ==
    /\ ~run.keepOriginals
    /\ \E i \in 1..Len(events), j \in 1..Len(events) :
          /\ i < j
          /\ events[i].type = "file" /\ events[i].action = "done"
          /\ events[i].file \in DOMAIN fs
          /\ events[j].type = "file" /\ events[j].action = "start"
    /\ RunReturnedOk
    /\ ret.processed = 2

-----------------------------------------------------------------------------
(* Properties of the handlers and the renderer together, checked under SpecUI *)

OpsInProgress == {i \in 1..Len(ops) : InProgress(ops[i])}

\* the step taken is main's handling of cancel-operation
CancelHandled ==
    /\ toMain # <<>>
    /\ Head(toMain) = "cancel-operation"
    /\ toMain' = Tail(toMain)

\* no cancel-operation was handled since these handlers were entered: the
\* flag is down, their signals are not aborted, and those that returned
\* without a directory error have handled every file
UncancelledOpsUntouched ==
    \A i \in 1..Len(ops) :
        ~ops[i].cancelled =>
            /\ ~ops[i].signal
            /\ InProgress(ops[i]) => ~cancelRequested
            /\ ops[i].result = "ok" => ops[i].processed = ops[i].total
            /\ ops[i].result = "ok" => ops[i].idx = Len(ops[i].plan)

\* C16: requestCancellation is idempotent and a no-op when idle.  A request
\* handled before a handler was entered, while idle or during an earlier
\* run, leaves that run as if there had been none; a request handled when the
\* flag is set and the active signal aborted changes nothing; every request
\* is answered.
C16_CancelIdempotentNoOpIdle ==
    /\ []UncancelledOpsUntouched
    /\ [][CancelHandled =>
            /\ cancelRequested'
            /\ activeOpController' = activeOpController
            /\ toRenderer' = Append(toRenderer, ReplyMsg("cancel-operation"))
            /\ \A i \in 1..Len(ops) :
                  /\ ops'[i].signal = (ops[i].signal \/ ops[i].controller = activeOpController)
                  /\ [ops'[i] EXCEPT !.signal = FALSE, !.cancelled = FALSE]
                        = [ops[i] EXCEPT !.signal = FALSE, !.cancelled = FALSE]
            /\ (cancelRequested /\ \A i \in 1..Len(ops) :
                                      ops[i].controller = activeOpController => ops[i].signal)
                  => (cancelRequested' = cancelRequested
                         /\ \A i \in 1..Len(ops) : ops'[i].signal = ops[i].signal)]_vars

C16_Witness ==
    /\ Len(ops) = 2
    /\ ops[1].cancelled
    /\ ops[2].staleFlag
    /\ ~ops[2].cancelled
    /\ ops[2].result = "ok"
    /\ ops[2].processed = 2

\* C18: cancellation reaches the running operation.  When cancel-operation is
\* handled, the flag is set and the signal of every handler that was entered
\* and has not returned is aborted.
C18_CancelReachesRun ==
    [][CancelHandled =>
          /\ cancelRequested'
          /\ \A i \in OpsInProgress : ops'[i].signal]_vars

\* C19: single operation at a time.  At most one handler of encrypt-folder or
\* decrypt-folder is between its entry and its return.
C19_SingleOperation == Cardinality(OpsInProgress) <= 1

-----------------------------------------------------------------------------
(* Properties of secureDelete, checked under SpecErase *)

EraseReturned == erase.pc = "returned"

\* C21: secure erase result.  The call never throws; when it returns true
\* the path no longer exists; when a system call of it failed (stat, open,
\* write, flush, close, unlink) it returns false.
C21_EraseResult ==
    /\ erase.pc # "thrown"
    /\ EraseReturned =>
          /\ erase.result = "true" => ~Exists(fs, erase.path)
          /\ erase.failed # "" => erase.result = "false"

\* the chunks of a pass lie end to end from offset 0 to size, none longer
\* than the buffer, and the pass was flushed
PassComplete(p, size) ==
    /\ p.synced
    /\ \A j \in 1..Len(p.chunks) :
          /\ p.chunks[j].len >= 1
          /\ p.chunks[j].len <= EraseChunk
          /\ p.chunks[j].at = IF j = 1 THEN 0
                              ELSE p.chunks[j - 1].at + p.chunks[j - 1].len
    /\ IF size = 0 THEN p.chunks = <<>>
       ELSE /\ p.chunks # <<>>
            /\ LET last == p.chunks[Len(p.chunks)] IN last.at + last.len = size

AllPassesComplete ==
    /\ Len(erase.passesDone) = erase.passes
    /\ \A k \in 1..Len(erase.passesDone) : PassComplete(erase.passesDone[k], erase.size)
    /\ erase.failed = ""

\* C25: secure erase ordering.  The step that unlinks the file is taken only
\* when exactly `passes` passes have each written [0, size) in chunks of at
\* most the buffer length and were each flushed, the file then holding only
\* overwritten bytes; once a write or a flush has failed the file is never
\* unlinked.
C25_EraseOrdering ==
    /\ [][(Exists(fs, erase.path) /\ ~Exists(fs', erase.path)) =>
             /\ erase.pc = "unlink"
             /\ AllPassesComplete
             /\ erase.size = Len(fs[erase.path])
             /\ (erase.passes >= 1 =>
                    \E byte \in RandomFill :
                       fs[erase.path] = [i \in 1..erase.size |-> byte])]_vars
    /\ [](erase.log = "removed" => AllPassesComplete)
    /\ [](erase.failed \in {"write", "sync"} => Exists(fs, erase.path))

C25_Witness ==
    /\ erase.log = "removed"
    /\ erase.passes = 2
    /\ erase.size = 3
    /\ Len(erase.passesDone[2].chunks) = 2
    /\ ~Exists(fs, erase.path)

-----------------------------------------------------------------------------
(* Further properties of encryptFile and decryptFile, checked under SpecFile *)

EncryptCalled == phase = "enc" /\ call.op = "enc"

\* C22: encrypt leaves the source untouched.  From the call of encryptFile(F)
\* until it has settled, on whatever path, every step leaves every file but
\* F.enc as it is, and F holds what it held when encryptFile was called.
C22_SourceUntouched ==
    /\ [][EncryptCalled =>
             \A p \in (DOMAIN fs) \cup (DOMAIN fs') :
                 p # call.path \o ENC =>
                     /\ p \in DOMAIN fs
                     /\ p \in DOMAIN fs'
                     /\ fs'[p] = fs[p]]_vars
    /\ [](EncryptCalled => Exists(fs, call.path) /\ fs[call.path] = orig)

C22_Witness ==
    /\ EncryptCalled
    /\ pc = "settled"
    /\ res.status = "rejected"
    /\ res.error = "aborted"
    /\ call.pos >= 1
    /\ Exists(fs, call.path \o ENC)
    /\ fs[call.path] = orig

\* What decryptFile(encPath, password) reports for a container when no system
\* call of it fails: how it settles, whether it created the temporary file,
\* and the plaintext it committed to the final path.
Verdict(status, error, streamed, output) ==
    [status |-> status, error |-> error, streamed |-> streamed, output |-> output]

DecryptVerdict(data, password) ==
    LET fileSize == Len(data)
    IN  IF TooSmall(fileSize) THEN Verdict("rejected", TooSmallError, FALSE, NoFile)
        ELSE IF ~MagicOk(Slice(data, 1, headerLen))
        THEN Verdict("rejected", MagicError, FALSE, NoFile)
        ELSE LET salt == Slice(data, Len(MAGIC) + 1, Len(MAGIC) + SALT_LEN)
                 iv == Slice(data, Len(MAGIC) + SALT_LEN + 1, headerLen)
                 tag == Slice(data, fileSize - AUTH_TAG_LEN + 1, fileSize)
                 k == Scrypt(password, salt)
                 ct == Slice(data, SpanStart + 1, SpanEnd(fileSize) + 1)
             IN  IF SpanStart > SpanEnd(fileSize)
                 THEN Verdict("rejected", "ERR_OUT_OF_RANGE", FALSE, NoFile)
                 ELSE IF AuthTag(k, iv, ct) = tag
                 THEN Verdict("ok", "", TRUE, DecipherUpdate(k, iv, 0, ct))
                 ELSE Verdict("rejected", AuthError, TRUE, NoFile)

\* a copy of the container with the byte at offset i changed
Corrupted(data, i) == [data EXCEPT ![i] = (@ + 1) % 256]

\* every decryptFile call that no system call failed settles as DecryptVerdict
\* says; a rejected one leaves the final path as it was
SettlesAsVerdict ==
    (DecryptSettled /\ res.error \notin EnvErrors /\ Exists(fs, call.path)) =>
        LET v == DecryptVerdict(fs[call.path], call.password)
        IN  /\ res.status = v.status
            /\ res.error = v.error
            /\ (~v.streamed => NoTmpFile)
            /\ IF v.status = "ok"
               THEN Exists(fs, res.value) /\ fs[res.value] = v.output
               ELSE FinalPathUntouched

\* the container of a successful encryptFile(F, pw1) is on disk as written
ContainerWritten ==
    /\ phase = "mid" \/ DecryptCalled
    /\ Untampered
    /\ Exists(fs, SourceFile \o ENC)

\* C23: no password oracle.  For the container of encryptFile(F, pw1), what
\* decryptFile reports with any other password (status, error message, whether
\* a temporary file was streamed, nothing committed) is what it reports with
\* pw1 for every copy with one byte of the ciphertext or of the tag changed.
C23_NoPasswordOracle ==
    /\ SettlesAsVerdict
    /\ ContainerWritten =>
          LET c == fs[SourceFile \o ENC]
          IN  \A wrong \in Passwords \ {pw1}, i \in (headerLen + 1)..Len(c) :
                  /\ DecryptVerdict(c, wrong) = DecryptVerdict(Corrupted(c, i), pw1)
                  /\ DecryptVerdict(c, wrong).status = "rejected"

C23_Witness ==
    /\ DecryptSettled
    /\ Untampered
    /\ pw2 # pw1
    /\ call.size = MaxLen
    /\ call.pos = call.size
    /\ res.status = "rejected"
    /\ res.error = AuthError
    /\ FinalPathUntouched

\* the step creates or replaces the file at the final output path
Commits == DecryptCalled /\ ReadOr(fs', FinalPath) # ReadOr(fs, FinalPath)

\* the whole ciphertext span was streamed and its tag verified
StreamedAndAuthenticated ==
    /\ call.pos = call.size
    /\ call.acc = Slice(fs[call.path], SpanStart + 1, SpanEnd(Len(fs[call.path])) + 1)
    /\ AuthTag(key, call.iv, call.acc) = call.tag

\* the order of the steps of a commit: the pipeline, the flush, the rename
CommitOrder ==
    /\ Commits =>
          /\ pc = "dec_rename"
          /\ StreamedAndAuthenticated
          /\ pc' = "settled"
          /\ res'.status = "ok"
          /\ fs'[FinalPath] = fs[call.tmpPath]
    /\ (DecryptCalled /\ pc' = "dec_rename" /\ pc # "dec_rename") => pc = "dec_sync"
    /\ (DecryptCalled /\ pc' = "dec_sync" /\ pc # "dec_sync") =>
          /\ pc = "dec_stream"
          /\ call.pos = call.size
          /\ AuthTag(key, call.iv, call.acc) = call.tag

\* C24 as claimed: commit ordering in decryptFile.  The rename to the final
\* path follows the streaming and authentication of the whole span and the
\* flush of the temporary file, and the final path is never created from a
\* temporary file whose flush did not succeed.
C24_CommitAfterFlush ==
    /\ [][CommitOrder]_vars
    /\ []((DecryptSettled /\ res.status = "ok") => call.synced)

\* C24 amended: the rename to the final path follows the streaming and
\* authentication of the whole span and the attempt to flush the temporary
\* file; the rename is made whether or not that flush succeeded.
C24_CommitAfterFlushAttempt ==
    /\ [][CommitOrder]_vars
    /\ []((DecryptCalled /\ pc \in {"dec_sync", "dec_rename"}) =>
             /\ FinalPathUntouched
             /\ StreamedAndAuthenticated)
    /\ []((DecryptSettled /\ res.status = "ok") =>
             /\ call.pos = call.size
             /\ Len(fs[FinalPath]) = call.size)

C24_Witness ==
    /\ DecryptSettled
    /\ res.status = "ok"
    /\ ~call.synced
    /\ call.size = MaxLen
    /\ fs[FinalPath] = orig

\* the file-progress events sent for file f, in order
RECURSIVE SeenOf(_, _)
SeenOf(evs, f) ==
    IF evs = <<>> THEN <<>>
    ELSE LET rest == SeenOf(Tail(evs), f)
         IN  IF Head(evs).type = "file-progress" /\ Head(evs).file = f
             THEN <<Head(evs)>> \o rest ELSE rest

\* the step is a chunk passing through the CountingTransform
ChunkPiped ==
    /\ Len(events') = Len(events) + 1
    /\ events'[Len(events')].type = "file-progress"

SourceSpan ==
    IF call.op = "enc" THEN fs[call.path]
    ELSE Slice(fs[call.path], SpanStart + 1, SpanEnd(Len(fs[call.path])) + 1)

\* C27: byte progress.  Each file-progress event of a call reports as seen
\* the number of bytes piped so far, more than the event before; what has
\* reached the output is the cipher's image of just these bytes of the
\* source span, none changed by the counter; total is the length of the span
\* (source size for encrypt, container size less 52 for decrypt), and when the
\* call succeeds the last seen equals total.
C27_ByteProgress ==
    /\ [][ChunkPiped =>
             LET e == events'[Len(events')]
                 before == SeenOf(events, call.path)
             IN  /\ e.file = call.path
                 /\ e.n = Len(call'.acc)
                 /\ e.n > Len(call.acc)
                 /\ e.n > (IF before = <<>> THEN 0 ELSE before[Len(before)].n)
                 /\ e.total = Len(SourceSpan)
                 /\ IF call.op = "enc"
                    THEN /\ call'.acc = CipherUpdate(key, call.iv, 0, Slice(SourceSpan, 1, e.n))
                         /\ fs'[call.path \o ENC] = MAGIC \o call.salt \o call.iv \o call'.acc
                    ELSE /\ call'.acc = Slice(SourceSpan, 1, e.n)
                         /\ fs'[call.tmpPath] = DecipherUpdate(key, call.iv, 0, call'.acc)]_vars
    /\ []((pc = "settled" /\ res.status = "ok" /\ call.path \in DOMAIN fs) =>
             LET all == SeenOf(events, call.path)
             IN  /\ Len(all) * ChunkLen >= Len(SourceSpan)
                 /\ all # <<>> =>
                       /\ all[Len(all)].n = all[Len(all)].total
                       /\ all[Len(all)].n = Len(SourceSpan)
                       /\ call.op = "dec" =>
                             all[Len(all)].n = Len(fs[call.path]) - MinContainerLen)

C27_Witness ==
    /\ DecryptSettled
    /\ res.status = "ok"
    /\ Len(SeenOf(events, call.path)) >= 2
    /\ Len(SeenOf(events, SourceFile)) >= 2
    /\ events[Len(events)].n = MaxLen

EncPath == SourceFile \o ENC

\* MAGIC || SALT || IV || CIPHERTEXT || AUTH_TAG for a plaintext, as the key
\* derived from the password and the salt encrypts it
LaidOut(c, plain, password) ==
    LET n == Len(plain)
        salt == Slice(c, Len(MAGIC) + 1, Len(MAGIC) + SALT_LEN)
        iv == Slice(c, Len(MAGIC) + SALT_LEN + 1, Len(MAGIC) + SALT_LEN + IV_LEN)
        ct == Slice(c, Len(MAGIC) + SALT_LEN + IV_LEN + 1, Len(c) - AUTH_TAG_LEN)
        tag == Slice(c, Len(c) - AUTH_TAG_LEN + 1, Len(c))
        k == Scrypt(password, salt)
    IN  /\ Len(c) = Len(MAGIC) + SALT_LEN + IV_LEN + n + AUTH_TAG_LEN
        /\ Slice(c, 1, Len(MAGIC)) = MAGIC
        /\ salt = call.salt /\ Len(call.salt) = SALT_LEN
        /\ iv = call.iv /\ Len(call.iv) = IV_LEN
        /\ ct = CipherUpdate(k, iv, 0, plain)
        /\ tag = AuthTag(k, iv, ct)

\* C28: container layout.  The container of a successful encryptFile is
\* MAGIC(8) || SALT(16) || IV(12) || CIPHERTEXT(N) || AUTH_TAG(16), N the
\* length of the plaintext; while the ciphertext is streamed the output is the
\* header followed by the ciphertext so far, and the step that appends the tag
\* comes when all of it is written; decryptFile takes as ciphertext the bytes
\* from offset 36 up to the last 16, and as tag the last 16.
C28_ContainerLayout ==
    /\ []((EncryptCalled /\ pc = "settled" /\ res.status = "ok") =>
             /\ res.value = EncPath
             /\ LaidOut(fs[EncPath], orig, pw1))
    /\ []((EncryptCalled /\ pc \in {"enc_stream", "enc_tag"}) =>
             /\ fs[EncPath] = MAGIC \o call.salt \o call.iv \o call.acc
             /\ Len(call.acc) <= Len(orig)
             /\ (pc = "enc_tag" => Len(call.acc) = Len(orig)))
    /\ [][(EncryptCalled /\ pc # "settled" /\ pc' = "settled" /\ res'.status = "ok") =>
             /\ pc = "enc_tag"
             /\ fs'[EncPath] = fs[EncPath] \o AuthTag(key, call.iv, call.acc)]_vars
    /\ []((DecryptCalled /\ pc \in {"dec_stream", "dec_sync", "dec_rename"}) =>
             LET c == fs[call.path]
             IN  /\ call.size = Len(c) - headerLen - AUTH_TAG_LEN
                 /\ headerLen = 36
                 /\ call.acc = Slice(c, headerLen + 1, headerLen + call.pos)
                 /\ call.tag = Slice(c, Len(c) - AUTH_TAG_LEN + 1, Len(c))
                 /\ (pc # "dec_stream" =>
                        call.acc = Slice(c, headerLen + 1, Len(c) - AUTH_TAG_LEN)))

C28_Witness ==
    /\ DecryptCalled
    /\ Untampered
    /\ pc = "dec_sync"
    /\ Len(fs[call.path]) = MinContainerLen + MaxLen
    /\ Len(call.acc) = MaxLen
    /\ call.salt = RandomBytes(SALT_LEN, 2)

-----------------------------------------------------------------------------
(* The events of a run, checked under Spec *)

\* start, done, error, skip, file-progress or progress
EvKind(e) == IF e.type = "file" THEN e.action ELSE e.type

PrevKind(i) == IF i = 1 THEN "none" ELSE EvKind(events[i - 1])

HandledBefore(i) ==
    Cardinality({j \in 1..(i - 1) : EvKind(events[j]) \in {"skip", "done", "error"}})

\* C26: per-file event protocol.  A start event follows the beginning of the
\* run, a skip or an aggregate progress event; the file-progress events of a
\* file follow its start; its done or error event follows them, one of the two
\* and once; the aggregate progress event follows the done or error event; no
\* file is started twice, no skipped file is started, the index of a start is
\* 1 plus the number of files handled before it, and the handler is between
\* two files only after the progress event of the last one.
C26_EventProtocol ==
    /\ \A i \in 1..Len(events) :
          LET e == events[i]
              k == EvKind(e)
          IN  /\ k \in {"start", "skip"} => PrevKind(i) \in {"none", "progress", "skip"}
              /\ k = "file-progress" =>
                    /\ PrevKind(i) \in {"start", "file-progress"}
                    /\ events[i - 1].file = e.file
              /\ k \in {"done", "error"} =>
                    /\ PrevKind(i) \in {"start", "file-progress"}
                    /\ events[i - 1].file = e.file
              /\ k = "progress" => PrevKind(i) \in {"done", "error"}
              /\ k = "start" =>
                    /\ e.n = 1 + HandledBefore(i)
                    /\ ~ToBeSkipped(e.file)
                    /\ \A j \in 1..Len(events) :
                          (j # i /\ EvKind(events[j]) = "start") => events[j].file # e.file
    /\ (run.rpc \in {"loop", "returned"} /\ events # <<>>) =>
          EvKind(events[Len(events)]) \in {"progress", "skip"}

C26_Witness ==
    /\ RunCompleted
    /\ \E i \in 1..Len(events), j \in 1..Len(events), k \in 1..Len(events) :
          /\ i < j /\ j < k
          /\ EvKind(events[i]) = "error"
          /\ EvKind(events[j]) = "start" /\ events[j].n = 2
          /\ EvKind(events[k]) = "file-progress" /\ events[k].n = 2
    /\ NumFileEvents("done") = 1
    /\ NumFileEvents("skip") = 1

-----------------------------------------------------------------------------
(* Properties of walk, checked under SpecWalkLive *)

RegularFiles(f) == {p \in DOMAIN f : f[p] \notin {SymLink, EmptyDir}}

WalkedOnce(w) ==
    /\ \A i \in 1..Len(w.yielded) : w.yielded[i] \in RegularFiles(fs)
    /\ \A i \in 1..Len(w.yielded), j \in 1..Len(w.yielded) :
          i # j => w.yielded[i] # w.yielded[j]

\* C29: TreeWalker.  Every walk comes to its end (or fails on a readdir);
\* what it yields are paths of regular files under the root, none twice,
\* never a directory or a symbolic link; a walk that came to its end has
\* yielded every regular file, and a second walk of the same tree yields the
\* same sequence.
C29_TreeWalker ==
    /\ [](WalkedOnce(walker))
    /\ [](walker.pc = "done" =>
             /\ {walker.yielded[i] : i \in 1..Len(walker.yielded)} = RegularFiles(fs)
             /\ Len(walker.yielded) = Cardinality(RegularFiles(fs))
             /\ walker.frames = <<>>
             /\ (walker.round = 2 => walker.yielded = walker.first))
    /\ (walker.pc = "walking" ~> walker.pc \in {"done", "failed"})
    /\ [][walker.pc = "failed" => walker' = walker]_vars

C29_Witness ==
    /\ walker.pc = "done"
    /\ walker.round = 2
    /\ Len(walker.yielded) = 4
    /\ DOMAIN fs = WalkFilePaths \cup WalkLinkPaths \cup WalkEmptyDirs
    /\ walker.yielded = walker.first

-----------------------------------------------------------------------------
(* Properties of the output names, checked under SpecNames *)

\* C30: output naming round trip.  The encrypt output name is the path with
\* .enc appended; the decrypt output name, with .enc appended, is the path
\* when the path ends with .enc, and is the path with .dec appended when it
\* does not; the decrypt name of the encrypt name of a path is the path; and
\* the name decrypt-folder gets for a file it does not skip is never the
\* fallback name.
C30_NamingRoundTrip ==
    /\ naming.pc \in {"encrypted", "decrypted"} => naming.enc = naming.p \o ENC
    /\ naming.pc = "decrypted" => naming.dec = naming.p
    /\ naming.pc = "direct" =>
          IF EndsWith(naming.p, ENC) THEN naming.dec \o ENC = naming.p
          ELSE naming.dec = naming.p \o DEC
    /\ naming.pc = "in-run" =>
          /\ naming.dec \o ENC = naming.p
          /\ naming.dec # naming.p \o DEC
    /\ naming.pc = "skipped" => ~EndsWith(naming.p, ENC)

C30_Witness ==
    /\ naming.pc = "decrypted"
    /\ naming.p = <<"a", ".", "e", "n", "c">>
    /\ naming.enc = <<"a", ".", "e", "n", "c", ".", "e", "n", "c">>
    /\ naming.dec = naming.p

-----------------------------------------------------------------------------
(* The operation state of main.js, checked under SpecUI *)

\* C31: operation state lifetime.  When no handler is in progress
\* activeOpController is null; the step that enters a handler sets it to the
\* handler's new controller and leaves cancelRequested false; every step by
\* which a handler returns (loop finished, loop left on cancellation, readdir
\* failure caught) leaves it null.
C31_OperationStateLifetime ==
    /\ [](OpsInProgress = {} => activeOpController = "null")
    /\ [][Len(ops') > Len(ops) =>
             /\ activeOpController' = ops'[Len(ops')].controller
             /\ activeOpController' # "null"
             /\ cancelRequested' = FALSE]_vars
    /\ [][\A i \in 1..Len(ops) :
             InProgress(ops[i]) /\ ~InProgress(ops'[i]) => activeOpController' = "null"]_vars

C31_Witness ==
    /\ Len(ops) = 2
    /\ OpsInProgress = {}
    /\ ops[1].result = "failed"
    /\ ops[2].staleFlag
    /\ ops[2].cancelled
    /\ ops[2].result = "ok"
    /\ ops[2].processed < ops[2].total
    /\ activeOpController = "null"

-----------------------------------------------------------------------------
(* The smallest container, checked under SpecFile *)

\* C37: minimum-length container.  decryptFile, called with the password of
\* the encryption on an unchanged container of exactly
\* Len(MAGIC) + SALT_LEN + IV_LEN + AUTH_TAG_LEN = 52 bytes (the container of
\* an empty file), succeeds unless the environment fails it, returns the
\* final path, and the file there is empty.
C37_MinimumContainer ==
    (DecryptSettled /\ Untampered /\ pw2 = pw1 /\ ContainerLen = MinContainerLen
        /\ MagicOk(Slice(fs[call.path], 1, headerLen))
        /\ res.error \notin EnvErrors)
        => /\ res.status = "ok"
           /\ res.value = FinalPath
           /\ Exists(fs, FinalPath)
           /\ fs[FinalPath] = <<>>

-----------------------------------------------------------------------------
(* The files of the folder and the counters of a run, checked under Spec *)

\* C34: keepOriginals frame.  In a run with keepOriginals = true, at every
\* moment and however the run ends, every file that was in the folder when
\* the run was entered is still there with the content it had.
C34_KeepOriginalsFrame ==
    (RunEntered /\ run.keepOriginals) =>
        \A p \in DOMAIN tree : p \in DOMAIN fs /\ fs[p] = tree[p]

\* C35: the counting pass and the processing pass agree.  The only changes of
\* the folder are those of the run; processed never exceeds total, the index
\* of every start event is within 1..total, and a run that returns without
\* cancellation and without a failure of the walk ends with processed = total.
C35_PassesAgree ==
    /\ run.rpc \in {"loop", "await", "delete", "returned"} => run.processed <= run.total
    /\ \A i \in 1..Len(events) :
          (events[i].type = "file" /\ events[i].action = "start") =>
              /\ events[i].total = run.total
              /\ events[i].n \in 1..run.total
    /\ RunCompleted => run.processed = run.total

C35_Witness ==
    /\ RunCompleted
    /\ run.total = 3
    /\ run.processed = 3
    /\ run.count = 2
    /\ NumFileEvents("skip") = 1
    /\ ~run.keepOriginals
    /\ <<"d", "/", "b">> \in DOMAIN fs

\* C36: a run never visits its own outputs.  Every file the processing pass
\* visits (skip, start, file-progress, done and error events) was in the
\* folder when the run was entered; no path the run created has an event.
C36_NoOwnOutputs ==
    /\ \A i \in 1..Len(events) :
          events[i].type \in {"file", "file-progress"} => events[i].file \in DOMAIN tree
    /\ \A p \in (DOMAIN fs) \ (DOMAIN tree) :
          \A i \in 1..Len(events) : events[i].file # p
    /\ pc \notin {"idle", "settled"} => call.path \in DOMAIN tree

C36_Witness ==
    /\ RunCompleted
    /\ run.mode = "decrypt"
    /\ <<"a">> \in (DOMAIN fs) \ (DOMAIN tree)
    /\ <<"d", "/", "b">> \in (DOMAIN fs) \ (DOMAIN tree)
    /\ HasEvent(<<"d", "/", "c">>, "skip")
    /\ NumFileEvents("done") = 2

\* the position of the last aggregate progress event, 0 when there is none
LastProgressAt ==
    LET at == {i \in 1..Len(events) : events[i].type = "progress"}
    IN  IF at = {} THEN 0 ELSE CHOOSE i \in at : \A j \in at : j <= i

\* its processed value, 0 when there is none
LastProgressValue == IF LastProgressAt = 0 THEN 0 ELSE events[LastProgressAt].n

\* the skip events after the last aggregate progress event
TrailingSkips ==
    Cardinality({i \in (LastProgressAt + 1)..Len(events) :
                    events[i].type = "file" /\ events[i].action = "skip"})

\* C38: meaning of the returned count.  The processed value of a result with
\* success: true is the number of done events of the run, and it is at most
\* the processed value of the last aggregate progress event plus the number
\* of files skipped after that event.
C38_ReturnedCount ==
    (ret.status = "returned" /\ ret.success) =>
        /\ ret.processed = NumFileEvents("done")
        /\ ret.processed <= LastProgressValue + TrailingSkips

C38_Witness ==
    /\ ret.status = "returned"
    /\ ret.success
    /\ ret.processed = 1
    /\ NumFileEvents("error") = 1
    /\ LastProgressValue = 2
    /\ TrailingSkips = 1
    /\ run.processed = 3

-----------------------------------------------------------------------------
(* The buttons of the renderer, checked under SpecUIMarkup *)

\* the reply of an encrypt-folder or decrypt-folder invocation is the next
\* message the renderer takes
RunReplyNext ==
    /\ toRenderer # <<>>
    /\ Head(toRenderer).type = "reply"
    /\ Head(toRenderer).rpc # "cancel-operation"

-----------------------------------------------------------------------------
(* Properties of the progress listener, checked under SpecObserverLive *)

\* an event was handed to the listener in this step
Received(type) ==
    /\ observer'.received > observer.received
    /\ observer'.last.type = type

\* the file is between its start event and its done or error event
BeingProcessed(o, f) == o.pc = "file" /\ o.file = f

\* the last event received settles the file as done, skipped or error
JustSettled(o, f) ==
    /\ o.last.type = "file"
    /\ o.last.file = f
    /\ o.last.action \in {"done", "skip", "error"}

EntryFromFirstEvent ==
    [][Received("file") \/ Received("file-progress") =>
          Exists(observer'.fileStats, observer'.last.file)]_vars

EntryUpdatedOnProgress ==
    [][Received("file-progress") =>
          /\ Exists(observer'.fileStats, observer'.last.file)
          /\ observer'.fileStats[observer'.last.file].seen = observer'.last.n
          /\ observer'.fileStats[observer'.last.file].total = observer'.last.total]_vars

EntryKeptWhileProcessed ==
    [][\A f \in ObsPaths :
          /\ BeingProcessed(observer, f)
          /\ BeingProcessed(observer', f)
          /\ Exists(observer.fileStats, f)
          => Exists(observer'.fileStats, f)]_vars

EntryDiscardedAfterSettle ==
    \A f \in ObsPaths :
        JustSettled(observer, f) ~> ~Exists(observer.fileStats, f)

\* C32: the fileStats entry of a file exists from the first event of the
\* file, takes seen and total of every file-progress event, is not discarded
\* while the file is between its start and its done or error, and is
\* discarded at some time after the file settled as done, skipped or error.
C32_FileProgressLifetime ==
    /\ EntryFromFirstEvent
    /\ EntryUpdatedOnProgress
    /\ EntryKeptWhileProcessed
    /\ EntryDiscardedAfterSettle

\* C39: progress throttle.  While an aggregate progress event is queued the
\* timer variable is set; the queue holds the pair of the event received
\* last; the step that empties the queue puts the queued pair on the overall
\* display; and a queued event is displayed at some later time, so none stays
\* undisplayed for ever.
C39_ProgressThrottle ==
    /\ [](observer.queuedProgress # NoProgress => observer.progressTimer # "null")
    /\ [][Received("progress") =>
             observer'.queuedProgress =
                 [processed |-> observer'.last.n, total |-> observer'.last.total]]_vars
    /\ [][(observer.queuedProgress # NoProgress /\ observer'.queuedProgress = NoProgress) =>
             observer'.overall = observer.queuedProgress]_vars
    /\ (observer.queuedProgress # NoProgress) ~> (observer.queuedProgress = NoProgress)

\* the last event of a second run was an aggregate progress event, the flush
\* has put its pair on the display and nothing is queued
C39_Witness ==
    /\ observer.runs = 2
    /\ observer.pc = "ready"
    /\ observer.overall = [processed |-> 2, total |-> 2]
    /\ observer.last = ProgressEvent(2, 2)
    /\ observer.queuedProgress = NoProgress
    /\ observer.progressTimer = "null"
    /\ ~observer.flushPending

=============================================================================
